---- MODULE Spec2Model ----
(***************************************************************************)
(* Shadow Harvester: durable submission queue and crash recovery, the      *)
(* idempotence guard of the mining modes, and the wallet-pool scheduler.   *)
(*                                                                         *)
(* The local data directory (--data-dir) is a set of files per             *)
(* (identity, challenge) pair: the recovery marker found.json, the entry   *)
(* of the pending-submission queue, the receipt at the path of the         *)
(* identity's locator and the receipt at the persistent/<address> path.    *)
(* The files survive a crash of the process; everything else is lost.      *)
(***************************************************************************)
EXTENDS Integers, Sequences, FiniteSets, TLC

\* ------------------------------------------------------------------ bounds
NumIdentities == 2
NumChallenges == 2
MaxOrphans == 2
MaxWallets == 3
MaxConcurrent == 2
NumThreads == 2
NoncesPerThread == 3
HashesPerCheck == 2
MaxSleeps == 8
MaxWaits == 3

Identities == 0..(NumIdentities - 1)
ChallengeIds == 1..NumChallenges
Keys == Identities \X ChallengeIds

VARIABLES
  \* the data directory
  marker,      \* Keys -> "absent" | "solution" | "corrupt"  (found.json)
  queue,       \* set of Keys with an entry in the pending-submission queue
  receipt,     \* set of Keys with a receipt at the locator's own path
  altReceipt,  \* set of Keys with a receipt at <challenge>/persistent/<address>
  \* the thread that runs check_for_unsubmitted_solutions
  pc,          \* its position
  ret,         \* where the caller continues when the recovery returns
  rkey,        \* the (identity, challenge) the recovery runs for
  rsol,        \* the PendingSolution deserialized from the marker, or "none"
  rres,        \* result of the last recovery call: "none" | "ok" | "err"
  rlog,        \* what the last recovery call printed
  \* history of the last recovery call
  marker0,     \* marker when the call started
  queue0,      \* queue when the call started
  prevKey,     \* key of the call before, if it recovered and deleted; or NoKey
               \* (within a mode whose passes are followed: the pair whose
               \* marker the recovery call of the pass under way enqueued,
               \* or NoPass)
  prevWarn,    \* key of the call before, if its deletion failed; or NoKey
  found,       \* history: Keys whose solution was found and written to disk
  \* the mining mode that runs, its command line and its loop variables
  mode,        \* "off" | "persistent" | "mnemonic" | "ephemeral" | "pool"
  donate_to_option,          \* context.donate_to_option.is_some()
  mnemonic_starting_index,   \* cli.mnemonic_starting_index
  cid,                       \* challenge_params.challenge_id, 0 before
  address,                   \* the identity that is mined
  wallet_deriv_index,
  first_run,
  last_seen_challenge_id,    \* 0 for the empty string
  current_challenge_id,      \* the id get_challenge_params keeps, 0 if empty
  result,                    \* the MiningResult of the last cycle
  \* the background submitter and the coordinator
  accepted,    \* the solutions the coordinator has accepted
  \* run_wallet_pool_mining: its inputs and the coordinator
  wallets_file,\* the roster file: unreadable, unparsable or a JSON list
  roster,      \* wallets: the names of the roster's entries, in file order
  concurrent,  \* concurrent_wallets
  pinned,      \* context.cli_challenge.is_some()
  active,      \* id of the challenge the coordinator has active
  \* run_wallet_pool_mining: the scheduler thread
  mpc,                    \* its position
  round_cid,              \* challenge_params.challenge_id, 0 before the first
  last_challenge_id,      \* 0 for the empty string
  wallet_index,
  active_miners,
  total_completed,
  new_challenge_detected,
  remaining,              \* of the wait for cancelled workers
  attempts,               \* of the wait for the next challenge
  msg,                    \* the result taken from the channel, or NoMsg
  thread_handles,         \* name -> roster position of the thread, 0 absent
  stop_signals,           \* name -> roster position of the flag, 0 absent
  \* the worker threads of the round, by roster position
  wstate,      \* "none" | "running" | "exited"
  stopFlag,    \* the worker's own stop_signal
  chan,        \* the result channel: messages sent and not yet received
  orphans,     \* threads of earlier rounds that still run
  \* the rotation monitor of the round
  monitor_running,
  monpc,       \* "none" | "check" | "poll" | "done"
  monret,      \* what the monitor thread returned: "none" | "true" | "false"
  \* history of the round
  launchLog,   \* roster positions in the order of their launch
  lateLaunches,\* launches made while the monitor's signal was set
  blindLaunches,\* launches made after the scheduler saw the signal
  \* run_wallet_pool_mining: the live statistics of the round
  lock,        \* holder of the Mutex<LiveStats>: "free" or a thread
  net,         \* the threads with a request to the coordinator in progress
  spc,         \* the scheduler's position among its live-stats accesses
  dpc,         \* the display thread's position
  display_running,
  loop_count,  \* of the display thread, modulo RefreshEvery
  status,      \* LiveStats.wallets: roster position -> WalletStatus
  \* The functions that run outside the mining modes: "off" while the function
  \* is not followed, otherwise the record of its state (the Backoff instances,
  \* which the mnemonic loop calls: NoBackoff while not followed).
  donate,      \* setup_donate_all_wallets (main.rs)
  diff,        \* difficulty_to_zero_bits, hash_structure_good
               \* (test_difficulty.rs)
  backoff,     \* the Backoff instances of run_mnemonic_sequential_mining
  engine       \* one call of the search engine (run_single_mining_cycle)

diskVars == <<marker, queue, receipt, altReceipt>>
recVars == <<pc, ret, rkey, rsol, rres, rlog>>
histVars == <<marker0, queue0, prevKey, prevWarn, found>>
modeVars == <<mode, donate_to_option, mnemonic_starting_index, cid, address,
              wallet_deriv_index, first_run, last_seen_challenge_id,
              current_challenge_id, result>>
drainVars == <<accepted>>
poolCfgVars == <<wallets_file, roster, concurrent, pinned>>
schedVars == <<mpc, round_cid, last_challenge_id, wallet_index, active_miners,
               total_completed, new_challenge_detected, remaining, attempts,
               msg, thread_handles, stop_signals>>
workerVars == <<wstate, stopFlag, chan, orphans>>
monVars == <<monitor_running, monpc, monret>>
poolHistVars == <<launchLog, lateLaunches, blindLaunches>>
statsVars == <<lock, net, spc, dpc, display_running, loop_count>>
liveVars == <<status>>
donateVars == <<donate>>
diffVars == <<diff>>
backoffVars == <<backoff>>
engineVars == <<engine>>
toolVars == <<donateVars, diffVars, backoffVars, engineVars>>
toolsButDonate == <<diffVars, backoffVars, engineVars>>
toolsButDiff == <<donateVars, backoffVars, engineVars>>
toolsButBackoff == <<donateVars, diffVars, engineVars>>
toolsButEngine == <<donateVars, diffVars, backoffVars>>
poolVars == <<poolCfgVars, active, schedVars, workerVars, monVars, poolHistVars,
              statsVars, liveVars, toolVars>>
poolButBackoff == <<poolCfgVars, active, schedVars, workerVars, monVars,
                    poolHistVars, statsVars, liveVars, toolsButBackoff>>
vars == <<diskVars, recVars, histVars, modeVars, drainVars, poolVars, modeVars, drainVars>>

\* ---------------------------------------------------------------- the disk
NoKey == <<>>
MarkerStates == {"absent", "solution", "corrupt"}
NoMarkers == [k \in Keys |-> "absent"]

HasMarker(k) == marker[k] # "absent"

\* Disks with at most MaxOrphans pairs that have a marker or a queue entry.
RecoveryDisks ==
  { d \in [m : [Keys -> MarkerStates], q : SUBSET Keys] :
      Cardinality({k \in Keys : d.m[k] # "absent" \/ k \in d.q}) <= MaxOrphans }

\* DataDir::save_pending_solution: one queue file per (address, challenge).
SavePendingSolution(q, sol) == q \cup {sol}

\* serde_json::from_str of the marker's text: the PendingSolution of the pair
\* the marker was written for, or an error for anything else.
ParseMarker(k) == IF marker[k] = "solution" THEN k ELSE NoKey

\* ------------------------------------------------- the wallet-pool inputs
Names == 1..MaxWallets
Positions == 1..MaxWallets
Results == {"FoundAndQueued", "AlreadySolved", "MiningFailed"}
NoMsg == [name |-> 0, result |-> "none", from |-> 0]
NoHandles == [n \in Names |-> 0]

Min(a, b) == IF a <= b THEN a ELSE b

\* The largest name among the first i - 1 entries of r, 0 for none.
MaxBefore(r, i) ==
  IF i = 1 THEN 0
  ELSE CHOOSE m \in {r[j] : j \in 1..(i - 1)} :
         \A j \in 1..(i - 1) : r[j] <= m

\* The rosters the loader accepts: one entry or more, names not required to
\* differ. Names are numbered by first occurrence.
Rosters ==
  { r \in UNION {[1..n -> Names] : n \in 1..MaxWallets} :
      \A i \in DOMAIN r : r[i] <= MaxBefore(r, i) + 1 }

\* The values the scheduler's variables hold while no pool runs.
SchedulerIdle ==
  /\ roster = <<1>> /\ concurrent = 1
  /\ wallets_file = [kind |-> "json", wallets |-> roster]
  /\ mpc = "off" /\ round_cid = 0 /\ last_challenge_id = 0
  /\ wallet_index = 0 /\ active_miners = 0 /\ total_completed = 0
  /\ new_challenge_detected = FALSE /\ remaining = 0 /\ attempts = 0
  /\ msg = NoMsg /\ thread_handles = NoHandles /\ stop_signals = NoHandles
  /\ wstate = [p \in Positions |-> "none"]
  /\ stopFlag = [p \in Positions |-> FALSE]
  /\ chan = <<>> /\ orphans = {}
  /\ monitor_running = FALSE /\ monpc = "none" /\ monret = "none"
  /\ launchLog = <<>> /\ lateLaunches = 0 /\ blindLaunches = 0

\* The live statistics while no round runs.
\* The statuses are written by the scheduler and read by the display and the
\* summary only (mining.rs:640-655, mining.rs:973-990): no scheduling decision
\* depends on them. A specification whose claims do not concern them starts
\* with NotFollowed and carries no statuses.
NotFollowed == <<"NotFollowed">>

StatsIdle ==
  /\ status = NotFollowed
  /\ lock = "free" /\ net = {}
  /\ spc = "off" /\ dpc = "off"
  /\ display_running = FALSE /\ loop_count = 0

PoolIdle == pinned = FALSE /\ active = 1 /\ SchedulerIdle /\ StatsIdle

\* The values of the mode's variables while no mining mode runs, and of the
\* submitter's while no submitter runs.
ModeIdle ==
  /\ mode = "off" /\ donate_to_option = FALSE /\ mnemonic_starting_index = 0
  /\ cid = 0 /\ address = 0 /\ wallet_deriv_index = 0
  /\ first_run = TRUE /\ last_seen_challenge_id = 0 /\ result = "none"
  /\ current_challenge_id = 0

DrainIdle == accepted = {}

\* The values while setup_donate_all_wallets does not run.
DonateIdle == donate = "off"

\* setup_donate_all_wallets (main.rs:108-221): its locals
wallets == donate.wallets  \* the wallets loaded from the file, by name
dpos == donate.dpos        \* the number of wallets iterated over
success_count == donate.success_count
already_donated_count == donate.already_donated_count
failed_count == donate.failed_count
failed_wallets == donate.failed_wallets  \* roster positions pushed
donateLog == donate.donateLog  \* history: roster positions in call order
dres == donate.dres            \* "none" | "ok": what the function returned

\* Neither function of the difficulty rule is called.
DiffIdle == diff = "off"

\* difficulty_to_zero_bits and hash_structure_good (test_difficulty.rs)
fpc == diff.fpc            \* "call" | "returned" | "panicked"
difficulty_hex == diff.difficulty_hex  \* the target: a sequence of characters
zero_bits == diff.zero_bits  \* what difficulty_to_zero_bits returned
hash == diff.hash          \* the hash: a sequence of bytes
required == diff.required  \* the zero_bits passed to hash_structure_good
good == diff.good          \* what hash_structure_good returned

\* mining.rs:278-279  the two instances: backoff_challenge, backoff_reg
Backoffs == {"challenge", "reg"}

\* No Backoff instance is followed.
NoBackoff == [followed |-> FALSE]
BackoffIdle == backoff = NoBackoff

\* The instances are followed together with the mnemonic loop that calls them.
InLoop(bk) == "failed_polls" \in DOMAIN bk

bk_attempts == backoff.bk_attempts  \* instance -> its attempt counter
bk_delay == backoff.bk_delay  \* instance -> seconds of its last sleep, 0 if
                              \*             none since the last reset
bk_peak == backoff.bk_peak    \* history: instance -> its longest sleep
failed_polls == backoff.failed_polls  \* history: failed polls in a row

\* context.threads: the search threads of one engine call
EngineThreads == 1..NumThreads

NoNonce == 0 - 1

\* No engine call is followed.
EngineIdle == engine = "off"

epc == engine.epc          \* "search" | "found" | "returned"
stop_signal == engine.stop_signal  \* the flag: "none" | "clear" | "set"
preset == engine.preset    \* history: the flag was set when the call began
satisfying == engine.satisfying  \* the nonces whose hash meets the target
tpc == engine.tpc          \* thread -> "check" | "hash" | "done" | "joined"
tnonce == engine.tnonce    \* thread -> nonces of its share it has hashed
tleft == engine.tleft      \* thread -> hashes left before its next check
should_stop == engine.should_stop  \* the first finder's signal to siblings
found_nonce == engine.found_nonce  \* the nonce found, NoNonce if none
lateHashes == engine.lateHashes  \* history: thread -> hashes it began after
                                 \*          the signal was given
total_hashes == engine.total_hashes  \* hashes_attempted
eresult == engine.eresult  \* the MiningResult of the call, "none" before
quiet_result == engine.quiet_result  \* what mine_single_wallet_quiet returned

\* The functions that run outside the mining modes are not running.
ToolsIdle == DonateIdle /\ DiffIdle /\ BackoffIdle /\ EngineIdle

\* --------------------------------------- check_for_unsubmitted_solutions
\* The call: the caller names the pair and where it continues. The history
\* of the call is kept where the recovery is studied on its own.
RecEnter(k, back) ==
  /\ pc' = "rec_exists"
  /\ ret' = back
  /\ rkey' = k
  /\ rsol' = NoKey
  /\ rres' = "none"
  /\ rlog' = "none"
  /\ IF mode = "off"
       THEN /\ marker0' = marker
            /\ queue0' = queue
            /\ prevKey' = IF rres = "ok" /\ rlog = "recovered" THEN rkey ELSE NoKey
            /\ prevWarn' = IF rres = "ok" /\ rlog = "warn_delete"
                             THEN rkey ELSE NoKey
       ELSE UNCHANGED <<marker0, queue0, prevKey, prevWarn>>
  /\ UNCHANGED found

RecReturn(res, log) ==
  /\ pc' = ret
  /\ rres' = res
  /\ rlog' = log
  /\ rsol' = NoKey
  /\ UNCHANGED <<ret, rkey, histVars>>

\* mining.rs:129-132  the marker's path is resolved; if path.exists()
RecExists ==
  /\ pc = "rec_exists"
  /\ IF HasMarker(rkey)
       THEN pc' = "rec_read" /\ UNCHANGED <<ret, rkey, rsol, rres, rlog, histVars>>
       ELSE RecReturn("ok", "none")
  /\ UNCHANGED <<diskVars, poolVars, modeVars, drainVars>>

\* mining.rs:135  fs::read_to_string(&path)
RecRead ==
  /\ pc = "rec_read"
  /\ \/ /\ HasMarker(rkey)
        /\ pc' = "rec_parse"
        /\ UNCHANGED <<ret, rkey, rsol, rres, rlog, histVars>>
     \/ RecReturn("err", "read_error")
  /\ UNCHANGED <<diskVars, poolVars, modeVars, drainVars>>

\* mining.rs:138  serde_json::from_str(&solution_json)
RecParse ==
  /\ pc = "rec_parse"
  /\ IF ParseMarker(rkey) = NoKey
       THEN RecReturn("err", "parse_error")
       ELSE /\ pc' = "rec_save"
            /\ rsol' = ParseMarker(rkey)
            /\ UNCHANGED <<ret, rkey, rres, rlog, histVars>>
  /\ UNCHANGED <<diskVars, poolVars, modeVars, drainVars>>

\* Mutation: the recovered solution is not written to the queue.
RecSaveWriteSkipped ==
  /\ UNCHANGED queue
  /\ pc' = "rec_remove"
  /\ UNCHANGED <<ret, rkey, rsol, rres, rlog, histVars>>

\* mining.rs:142  the queue write and its outcome
RecSaveWrite ==
  /\ queue' = SavePendingSolution(queue, rsol)
  /\ pc' = "rec_remove"
  /\ UNCHANGED <<ret, rkey, rsol, rres, rlog, histVars>>

\* mining.rs:141-144  save_pending_solution, Err returns the fatal error
RecSave ==
  /\ pc = "rec_save"
  /\ \/ RecSaveWrite
     \/ RecReturn("err", "queue_error") /\ UNCHANGED queue
  /\ UNCHANGED <<marker, receipt, altReceipt, poolVars, modeVars, drainVars>>

\* Mutation: success is reported and the marker is still there.
RecRemoveFileKept ==
  /\ UNCHANGED marker
  /\ RecReturn("ok", "recovered")

\* mining.rs:147  the deletion of the marker
RecRemoveFile ==
  /\ marker' = [marker EXCEPT ![rkey] = "absent"]
  /\ RecReturn("ok", "recovered")

\* Mutation: a deletion that fails is returned as an error.
RecRemoveFailsFatal ==
  /\ UNCHANGED marker
  /\ RecReturn("err", "delete_error")

\* mining.rs:147-148  fs::remove_file fails: the warning, then Ok(())
RecRemoveFails ==
  /\ UNCHANGED marker
  /\ RecReturn("ok", "warn_delete")

\* mining.rs:146-153  fs::remove_file, a failure is only a warning
RecRemove ==
  /\ pc = "rec_remove"
  /\ \/ RecRemoveFile
     \/ RecRemoveFails
  /\ UNCHANGED <<queue, receipt, altReceipt, poolVars, modeVars, drainVars>>

RecStep == RecExists \/ RecRead \/ RecParse \/ RecSave \/ RecRemove

\* -------------------------------------------------- recovery on its own
\* A caller that runs the recovery for any pair, again and again, and a
\* process that can die at any step and start again with the disk it left.
InitRecovery ==
  /\ \E d \in RecoveryDisks : marker = d.m /\ queue = d.q
  /\ receipt = {} /\ altReceipt = {}
  /\ pc = "idle" /\ ret = "idle" /\ rkey = <<0, 1>>
  /\ rsol = NoKey /\ rres = "none" /\ rlog = "none"
  /\ marker0 = marker /\ queue0 = queue /\ prevKey = NoKey /\ prevWarn = NoKey
  /\ found = {k \in Keys : marker[k] = "solution" \/ k \in queue}
  /\ PoolIdle /\ ModeIdle /\ DrainIdle /\ ToolsIdle

CallRecovery ==
  /\ pc = "idle"
  /\ \E k \in Keys : RecEnter(k, "idle")
  /\ UNCHANGED <<diskVars, poolVars, modeVars, drainVars>>

\* The process dies: the files stay, the thread's state is gone.
Crash ==
  /\ pc # "idle"
  /\ pc' = "idle" /\ ret' = "idle"
  /\ rsol' = NoKey /\ rres' = "crashed" /\ rlog' = "none"
  /\ UNCHANGED <<rkey, diskVars, histVars, poolVars, modeVars, drainVars>>

NextRecovery ==
  \/ CallRecovery
  \/ RecExists
  \/ RecRead
  \/ RecParse
  \/ RecSave
  \/ RecRemove
  \/ Crash

SpecRecovery == InitRecovery /\ [][NextRecovery]_vars

\* C1: the recovery writes the solution to the pending queue before it
\* deletes the marker, so in every state, the states a crash at any step of
\* the recovery leaves included, every found solution is in its recovery
\* marker or in the pending queue, never in neither.
NeverInNeither == \A k \in found : HasMarker(k) \/ k \in queue

\* C1 witness: the process died between the queue write and the deletion.
CrashedBetweenQueueAndDelete ==
  /\ rres = "crashed" /\ pc = "idle"
  /\ rkey \in queue /\ rkey \notin queue0
  /\ HasMarker(rkey)

\* The last call has returned to its caller.
Returned == pc = "idle" /\ rres \in {"ok", "err"}

DeletionStep ==
  (pc = "rec_remove" /\ rres' # "crashed") =>
     /\ rres' = "ok" /\ pc' = ret
     /\ rkey \in queue' /\ queue' = queue
     /\ marker' = marker \/ marker' = [marker EXCEPT ![rkey] = "absent"]

\* The run after one whose deletion failed, for the same pair: it found the
\* marker and the queue entry, and when it returns Ok the queue holds the
\* entries it held before, no further one.
LaterRunAddsNoEntry ==
  (Returned /\ prevWarn = rkey) =>
     /\ marker0[rkey] = "solution" /\ rkey \in queue0
     /\ rres = "ok" => queue = queue0

\* C27: a deletion of the recovery marker that fails after the solution was
\* written to the pending queue is not fatal: the call returns Ok, the
\* solution is queued and the marker remains; a later run for the pair
\* queues the same solution again and adds no second pending submission.
FailedDeletionIsNotFatal == []LaterRunAddsNoEntry /\ [][DeletionStep]_vars

\* C27 witness: the run after a failed deletion has queued the solution
\* of the remaining marker again and has returned Ok.
RequeuedAfterFailedDeletion ==
  /\ Returned /\ prevWarn = rkey /\ rres = "ok"
  /\ rlog \in {"recovered", "warn_delete"}
  /\ rkey \in queue

\* ------------------------------------------------ run_wallet_pool_mining
\* Everything that is not the pool's stays as it is; the accesses to the
\* live statistics are followed on their own, further down.
restButLive == <<diskVars, recVars, histVars, modeVars, drainVars, statsVars,
                toolVars>>
restVars == <<restButLive, liveVars>>

\* Mutation: the join of the display thread does not wait for it.
DisplayJoinedAtOnce == TRUE

\* mining.rs:934, 971  display_handle.join() has returned
DisplayJoined == dpc = "done"

restButDisplay == <<diskVars, recVars, histVars, modeVars, drainVars, lock,
                   net, spc, loop_count, toolVars, liveVars>>

\* mining.rs:644-688  the display thread is followed beside the scheduler
\* where dpc is not "off"
DisplayFollowed == dpc # "off"

\* mining.rs:932-934, 969-971  display_running.store(false), then
\* display_handle.join(), which returns when the thread has ended; the
\* scheduler goes on at next
DisplayStopJoin(next) ==
  IF ~DisplayFollowed
    THEN mpc' = next /\ UNCHANGED <<dpc, display_running>>
    ELSE IF display_running
      THEN display_running' = FALSE /\ UNCHANGED <<mpc, dpc>>
      ELSE DisplayJoined /\ mpc' = next /\ UNCHANGED <<dpc, display_running>>

\* mining.rs:1015
max_attempts == 60

NumWallets == Len(roster)

\* Mutation: the initial batch ignores the concurrency limit.
InitialBatchWholeRoster == NumWallets

\* mining.rs:732  concurrent_wallets.min(wallets.len())
InitialBatch == Min(concurrent, NumWallets)

\* Mutation: the last roster entry is never rotated in.
MoreWalletsOffByOne == wallet_index + 1 < NumWallets

\* mining.rs:834  if wallet_index < wallets.len()
MoreWallets == wallet_index < NumWallets

\* Mutation: the slot is refilled with the entry that has just completed.
NextWalletRepeats == IF msg.from # 0 THEN msg.from ELSE wallet_index + 1

\* mining.rs:734, mining.rs:835  &wallets[wallet_index], as a roster position
NextWallet == wallet_index + 1

\* What get_challenge_params answers with Ok(Some(..)): the pinned challenge,
\* or the one the coordinator has active.
PolledId == IF pinned THEN 1 ELSE active

\* mining.rs:738, 816, 842  stats.wallets.iter_mut().find(|w| w.name == name):
\* the first entry of LiveStats.wallets that carries the name
FirstNamed(name) ==
  CHOOSE i \in DOMAIN roster :
    roster[i] = name /\ \A j \in 1..(i - 1) : roster[j] # name

\* w.status = value for the entry found
SetStatus(st, name, value) ==
  IF st = NotFollowed THEN st ELSE [st EXCEPT ![FirstNamed(name)] = value]

\* mining.rs:817-831  the WalletStatus of a MiningResult
StatusOf(res) ==
  IF res = "FoundAndQueued" THEN "Solved"
  ELSE IF res = "AlreadySolved" THEN "Skipped"
  ELSE "Failed"

\* mining.rs:736-771, mining.rs:839-874  one worker is started
Launch(p) ==
  /\ status' = SetStatus(status, roster[p], "Mining")
  /\ stop_signals' = [stop_signals EXCEPT ![roster[p]] = p]
  /\ stopFlag' = [stopFlag EXCEPT ![p] = FALSE]
  /\ wstate' = [wstate EXCEPT ![p] = "running"]
  /\ thread_handles' = [thread_handles EXCEPT ![roster[p]] = p]
  /\ wallet_index' = wallet_index + 1
  /\ active_miners' = active_miners + 1
  /\ launchLog' = Append(launchLog, p)
  /\ lateLaunches' = lateLaunches + (IF monret = "true" THEN 1 ELSE 0)
  /\ blindLaunches' = blindLaunches + (IF new_challenge_detected THEN 1 ELSE 0)
  /\ UNCHANGED <<chan, orphans>>

\* Mutation: a list without entries is taken as a roster.
WalletsMissingNever(file) == file.kind # "json"

\* mining.rs:541-549  read_to_string or serde_json::from_str returns Err, or
\* wallets.is_empty()
WalletsMissing(file) == file.kind # "json" \/ file.wallets = <<>>

\* mining.rs:540-555  the roster is loaded from the file; without a roster
\* the function returns Err
MainLoad ==
  /\ mpc = "load"
  /\ IF WalletsMissing(wallets_file)
       THEN mpc' = "load_failed" /\ UNCHANGED roster
       ELSE mpc' = "poll" /\ roster' = wallets_file.wallets
  /\ UNCHANGED <<wallets_file, concurrent, pinned>>
  /\ UNCHANGED <<round_cid, last_challenge_id, wallet_index, active_miners,
                 total_completed, new_challenge_detected, remaining, attempts,
                 msg, thread_handles, stop_signals>>
  /\ UNCHANGED <<active, workerVars, monVars, poolHistVars, restVars>>

\* mining.rs:559-580  the round's challenge is fetched
MainPoll ==
  /\ mpc = "poll"
  /\ \/ /\ round_cid' = PolledId
        /\ last_challenge_id' = PolledId
        /\ mpc' = "setup"
     \/ UNCHANGED <<round_cid, last_challenge_id, mpc>>
  /\ UNCHANGED <<wallet_index, active_miners, total_completed,
                 new_challenge_detected, remaining, attempts, msg,
                 thread_handles, stop_signals>>
  /\ UNCHANGED <<poolCfgVars, active, workerVars, monVars, poolHistVars, restVars>>

\* mining.rs:582-729, 777-778  statistics, display thread, channel, monitor
\* thread and the round's counters; a thread of the round before that still
\* runs has no handle any more
MainSetup ==
  /\ mpc = "setup"
  /\ mpc' = "batch"
  /\ wallet_index' = 0 /\ active_miners' = 0 /\ total_completed' = 0
  /\ new_challenge_detected' = FALSE /\ remaining' = 0 /\ attempts' = 0
  /\ msg' = NoMsg
  /\ thread_handles' = NoHandles /\ stop_signals' = NoHandles
  /\ orphans' = orphans \cup {p \in Positions : wstate[p] = "running"}
  /\ wstate' = [p \in Positions |-> "none"]
  /\ stopFlag' = [p \in Positions |-> FALSE]
  /\ chan' = <<>>
  /\ monitor_running' = TRUE /\ monpc' = "check" /\ monret' = "none"
  /\ launchLog' = <<>> /\ lateLaunches' = 0 /\ blindLaunches' = 0
  /\ status' = IF status = NotFollowed THEN status
               ELSE [p \in 1..NumWallets |-> "Waiting"]
  /\ dpc' = IF DisplayFollowed THEN "check" ELSE dpc
  /\ display_running' = DisplayFollowed
  /\ UNCHANGED <<round_cid, last_challenge_id>>
  /\ UNCHANGED <<poolCfgVars, active, diskVars, recVars, histVars, modeVars,
                 drainVars, lock, net, spc, loop_count, toolVars>>

\* mining.rs:731-774  the initial batch, one worker per iteration
MainBatch ==
  /\ mpc = "batch"
  /\ IF wallet_index < InitialBatch
       THEN Launch(NextWallet) /\ UNCHANGED mpc
       ELSE /\ mpc' = "loop"
            /\ UNCHANGED <<wallet_index, active_miners, thread_handles,
                           stop_signals, workerVars, poolHistVars, status>>
  /\ UNCHANGED <<round_cid, last_challenge_id, total_completed,
                 new_challenge_detected, remaining, attempts, msg>>
  /\ UNCHANGED <<poolCfgVars, active, monVars, restButLive>>

\* Mutation: the loop does not look at the monitor's signal.
SignalSeenNever == FALSE

\* mining.rs:781  if !monitor_running.load(..)
SignalSeen == ~monitor_running

\* mining.rs:779-785  the head of the completion loop
MainLoopCheck ==
  /\ mpc = "loop"
  /\ IF total_completed < NumWallets
       THEN IF SignalSeen
              THEN new_challenge_detected' = TRUE /\ mpc' = "stop_monitor"
              ELSE mpc' = "recv" /\ UNCHANGED new_challenge_detected
       ELSE mpc' = "stop_monitor" /\ UNCHANGED new_challenge_detected
  /\ msg' = NoMsg
  /\ UNCHANGED <<round_cid, last_challenge_id, wallet_index, active_miners,
                 total_completed, remaining, attempts, thread_handles,
                 stop_signals>>
  /\ UNCHANGED <<poolCfgVars, active, workerVars, monVars, poolHistVars, restVars>>

\* mining.rs:790  active_miners -= 1
CompletedMiners == active_miners - 1

\* Mutation: the receive waits until a result arrives.
RecvBlocks == FALSE

\* mining.rs:788, 880-883  recv_timeout(1 s) ends with Timeout when no
\* result has been sent
RecvTimesOut == TRUE

\* mining.rs:788-791, 880-883  recv_timeout: a result, or the timeout when
\* none has been sent
MainRecv ==
  /\ mpc = "recv"
  /\ IF chan # <<>>
       THEN /\ msg' = Head(chan)
            /\ chan' = Tail(chan)
            /\ active_miners' = CompletedMiners
            /\ total_completed' = total_completed + 1
            /\ mpc' = "join"
       ELSE /\ RecvTimesOut
            /\ mpc' = "loop"
            /\ UNCHANGED <<msg, chan, active_miners, total_completed>>
  /\ UNCHANGED <<round_cid, last_challenge_id, wallet_index,
                 new_challenge_detected, remaining, attempts, thread_handles,
                 stop_signals, wstate, stopFlag, orphans>>
  /\ UNCHANGED <<poolCfgVars, active, monVars, poolHistVars, restVars>>

\* mining.rs:793-798  the handle stored under the name is joined, which
\* waits for that thread to exit, and the name's stop signal is dropped
MainJoin ==
  /\ mpc = "join"
  /\ thread_handles[msg.name] # 0 => wstate[thread_handles[msg.name]] = "exited"
  /\ thread_handles' = [thread_handles EXCEPT ![msg.name] = 0]
  /\ stop_signals' = [stop_signals EXCEPT ![msg.name] = 0]
  /\ mpc' = "update"
  /\ UNCHANGED <<round_cid, last_challenge_id, wallet_index, active_miners,
                 total_completed, new_challenge_detected, remaining, attempts,
                 msg>>
  /\ UNCHANGED <<poolCfgVars, active, workerVars, monVars, poolHistVars, restVars>>

\* mining.rs:800-831  fresh statistics and the wallet's status
MainUpdate ==
  /\ mpc = "update"
  /\ mpc' = "rotate"
  /\ status' = SetStatus(status, msg.name, StatusOf(msg.result))
  /\ UNCHANGED <<round_cid, last_challenge_id, wallet_index, active_miners,
                 total_completed, new_challenge_detected, remaining, attempts,
                 msg, thread_handles, stop_signals>>
  /\ UNCHANGED <<poolCfgVars, active, workerVars, monVars, poolHistVars,
                 restButLive>>

\* mining.rs:833-878  the next roster entry takes the slot
MainRotate ==
  /\ mpc = "rotate"
  /\ mpc' = "loop"
  /\ IF MoreWallets
       THEN Launch(NextWallet)
       ELSE UNCHANGED <<wallet_index, active_miners, thread_handles,
                        stop_signals, workerVars, poolHistVars, status>>
  /\ UNCHANGED <<round_cid, last_challenge_id, total_completed,
                 new_challenge_detected, remaining, attempts, msg>>
  /\ UNCHANGED <<poolCfgVars, active, monVars, restButLive>>

\* mining.rs:892-894  the monitor is told to stop and is joined
MainStopMonitor ==
  /\ mpc = "stop_monitor"
  /\ monitor_running' = FALSE
  /\ mpc' = "join_monitor"
  /\ UNCHANGED <<monpc, monret>>
  /\ UNCHANGED <<round_cid, last_challenge_id, wallet_index, active_miners,
                 total_completed, new_challenge_detected, remaining, attempts,
                 msg, thread_handles, stop_signals>>
  /\ UNCHANGED <<poolCfgVars, active, workerVars, poolHistVars, restVars>>

\* Mutation: the join of the monitor thread does not wait for it.
MonitorJoinedAtOnce == TRUE

\* mining.rs:894  monitor_handle.join() has returned
MonitorJoined == monpc = "done"

\* mining.rs:894-896  monitor_handle.join(), then the branch on rotation
MainJoinMonitor ==
  /\ mpc = "join_monitor"
  /\ MonitorJoined
  /\ mpc' = IF new_challenge_detected THEN "cancel_signal" ELSE "final"
  /\ UNCHANGED <<round_cid, last_challenge_id, wallet_index, active_miners,
                 total_completed, new_challenge_detected, remaining, attempts,
                 msg, thread_handles, stop_signals>>
  /\ UNCHANGED <<poolCfgVars, active, workerVars, monVars, poolHistVars, restVars>>

\* mining.rs:899-908  every stored stop signal is set
MainCancelSignal ==
  /\ mpc = "cancel_signal"
  /\ stopFlag' = [p \in Positions |->
                    IF \E n \in Names : stop_signals[n] = p THEN TRUE
                    ELSE stopFlag[p]]
  /\ remaining' = active_miners
  /\ mpc' = "cancel_wait"
  /\ UNCHANGED <<round_cid, last_challenge_id, wallet_index, active_miners,
                 total_completed, new_challenge_detected, attempts, msg,
                 thread_handles, stop_signals>>
  /\ UNCHANGED <<wstate, chan, orphans>>
  /\ UNCHANGED <<poolCfgVars, active, monVars, poolHistVars, restVars>>

\* mining.rs:909-921  the wait for the cancelled workers: a result within
\* the timeout, or the timeout ends the wait
MainCancelWait ==
  /\ mpc = "cancel_wait"
  /\ IF remaining > 0
       THEN IF chan # <<>>
              THEN /\ msg' = Head(chan)
                   /\ chan' = Tail(chan)
                   /\ mpc' = "cancel_wait_join"
              ELSE /\ mpc' = "cancel_join"
                   /\ UNCHANGED <<msg, chan>>
       ELSE /\ mpc' = "cancel_join"
            /\ UNCHANGED <<msg, chan>>
  /\ UNCHANGED <<round_cid, last_challenge_id, wallet_index, active_miners,
                 total_completed, new_challenge_detected, remaining, attempts,
                 thread_handles, stop_signals, wstate, stopFlag, orphans>>
  /\ UNCHANGED <<poolCfgVars, active, monVars, poolHistVars, restVars>>

\* mining.rs:911-916  the handle stored under the name is joined
MainCancelWaitJoin ==
  /\ mpc = "cancel_wait_join"
  /\ thread_handles[msg.name] # 0 => wstate[thread_handles[msg.name]] = "exited"
  /\ thread_handles' = [thread_handles EXCEPT ![msg.name] = 0]
  /\ remaining' = remaining - 1
  /\ mpc' = "cancel_wait"
  /\ UNCHANGED <<round_cid, last_challenge_id, wallet_index, active_miners,
                 total_completed, new_challenge_detected, attempts, msg,
                 stop_signals>>
  /\ UNCHANGED <<poolCfgVars, active, workerVars, monVars, poolHistVars, restVars>>

\* mining.rs:923-930  every handle that is left is joined
MainCancelJoin ==
  /\ mpc = "cancel_join"
  /\ IF \E n \in Names : thread_handles[n] # 0
       THEN /\ \E n \in Names :
                 /\ thread_handles[n] # 0
                 /\ wstate[thread_handles[n]] = "exited"
                 /\ thread_handles' = [thread_handles EXCEPT ![n] = 0]
            /\ UNCHANGED mpc
       ELSE mpc' = "cancel_cleanup" /\ UNCHANGED thread_handles
  /\ UNCHANGED <<round_cid, last_challenge_id, wallet_index, active_miners,
                 total_completed, new_challenge_detected, remaining, attempts,
                 msg, stop_signals>>
  /\ UNCHANGED <<poolCfgVars, active, workerVars, monVars, poolHistVars, restVars>>

\* mining.rs:932-948  display stopped, the round's data dropped, next round
MainCancelCleanup ==
  /\ mpc = "cancel_cleanup"
  /\ DisplayStopJoin("poll")
  /\ UNCHANGED <<round_cid, last_challenge_id, wallet_index, active_miners,
                 total_completed, new_challenge_detected, remaining, attempts,
                 msg, thread_handles, stop_signals>>
  /\ UNCHANGED <<poolCfgVars, active, workerVars, monVars, poolHistVars,
                 restButDisplay>>

\* mining.rs:951-990  final statistics and display
MainFinal ==
  /\ mpc = "final"
  /\ DisplayStopJoin("final_join")
  /\ UNCHANGED <<round_cid, last_challenge_id, wallet_index, active_miners,
                 total_completed, new_challenge_detected, remaining, attempts,
                 msg, thread_handles, stop_signals>>
  /\ UNCHANGED <<poolCfgVars, active, workerVars, monVars, poolHistVars,
                 restButDisplay>>

\* Mutation: the end of a round does not look at the pin.
FixedChallengeIgnored == FALSE

\* mining.rs:1005  if context.cli_challenge.is_some()
FixedChallenge == pinned

\* mining.rs:992-1008  the handles that are left are joined, the round's
\* data is dropped; a pinned challenge ends the run
MainFinalJoin ==
  /\ mpc = "final_join"
  /\ IF \E n \in Names : thread_handles[n] # 0
       THEN /\ \E n \in Names :
                 /\ thread_handles[n] # 0
                 /\ wstate[thread_handles[n]] = "exited"
                 /\ thread_handles' = [thread_handles EXCEPT ![n] = 0]
            /\ UNCHANGED mpc
       ELSE /\ mpc' = IF FixedChallenge THEN "exit" ELSE "next_wait"
            /\ UNCHANGED thread_handles
  /\ UNCHANGED <<round_cid, last_challenge_id, wallet_index, active_miners,
                 total_completed, new_challenge_detected, remaining, attempts,
                 msg, stop_signals>>
  /\ UNCHANGED <<poolCfgVars, active, workerVars, monVars, poolHistVars, restVars>>

\* What a poll of get_challenge_params answers: Ok(Some(..)) with the
\* challenge PolledId, Ok(None), or Err(..).
PollAnswers == {"challenge", "none", "error"}

\* Mutation: any challenge that is answered ends the wait.
NewChallengeAnsweredAny(ans) == ans = "challenge"

\* mining.rs:1023  Ok(Some(new_params))
\*                   if new_params.challenge_id != last_challenge_id
NewChallengeAnswered(ans) == ans = "challenge" /\ PolledId # last_challenge_id

\* mining.rs:1016-1044  one iteration of the wait for the next challenge:
\* the attempt is counted, the poll is made, and the loop ends on a new
\* challenge or after max_attempts attempts
MainNextWaitPoll(ans) ==
  /\ mpc = "next_wait"
  /\ attempts' = attempts + 1
  /\ mpc' = IF NewChallengeAnswered(ans) \/ attempts' >= max_attempts
              THEN "poll" ELSE "next_wait"
  /\ UNCHANGED <<round_cid, last_challenge_id, wallet_index, active_miners,
                 total_completed, new_challenge_detected, remaining, msg,
                 thread_handles, stop_signals>>
  /\ UNCHANGED <<poolCfgVars, active, workerVars, monVars, poolHistVars, restVars>>

\* mining.rs:1013-1044  the wait for the next challenge, one poll a step
MainNextWait == \E ans \in PollAnswers : MainNextWaitPoll(ans)

\* mining.rs:755-766, 858-869  a worker's mine_single_wallet_quiet returns,
\* its result is sent and the closure ends: the send is the closure's last
\* statement
WorkerFinish(p) ==
  /\ wstate[p] = "running"
  /\ \E r \in Results :
       chan' = Append(chan, [name |-> roster[p], result |-> r, from |-> p])
  /\ wstate' = [wstate EXCEPT ![p] = "exited"]
  /\ UNCHANGED <<stopFlag, orphans>>
  /\ UNCHANGED <<poolCfgVars, active, schedVars, monVars, poolHistVars, restVars>>

\* A thread of an earlier round ends; its channel is gone.
OrphanExit(p) ==
  /\ p \in orphans
  /\ orphans' = orphans \ {p}
  /\ UNCHANGED <<wstate, stopFlag, chan>>
  /\ UNCHANGED <<poolCfgVars, active, schedVars, monVars, poolHistVars, restVars>>

\* mining.rs:702  while monitor_running_clone.load(..)
MonCheck ==
  /\ monpc = "check"
  /\ IF monitor_running
       THEN monpc' = "poll" /\ UNCHANGED monret
       ELSE monpc' = "done" /\ monret' = "false"
  /\ UNCHANGED monitor_running
  /\ UNCHANGED <<poolCfgVars, active, schedVars, workerVars, poolHistVars, restVars>>

\* Mutation: every challenge the monitor is given counts as a new one.
NewChallengeAlways == TRUE

\* mining.rs:712  if new_params.challenge_id != current_challenge_id
NewChallenge == PolledId # round_cid

\* mining.rs:703-718  sleep, poll (if let Ok(Some(..))), and the signal when
\* the id differs
MonPollAnswer(ans) ==
  /\ monpc = "poll"
  /\ IF ans = "challenge" /\ NewChallenge
       THEN /\ monitor_running' = FALSE
            /\ monpc' = "done"
            /\ monret' = "true"
       ELSE /\ monpc' = "check"
            /\ UNCHANGED <<monitor_running, monret>>
  /\ UNCHANGED <<poolCfgVars, active, schedVars, workerVars, poolHistVars, restVars>>

MonPoll == \E ans \in PollAnswers : MonPollAnswer(ans)

\* The coordinator replaces the active challenge by the next one.
Rotation ==
  /\ active < NumChallenges
  /\ active' = active + 1
  /\ UNCHANGED <<poolCfgVars, schedVars, workerVars, monVars, poolHistVars, restVars>>

InitScheduler ==
  /\ marker = NoMarkers /\ queue = {} /\ receipt = {} /\ altReceipt = {}
  /\ pc = "idle" /\ ret = "idle" /\ rkey = <<0, 1>>
  /\ rsol = NoKey /\ rres = "none" /\ rlog = "none"
  /\ marker0 = marker /\ queue0 = queue /\ prevKey = NoKey /\ prevWarn = NoKey /\ found = {}
  /\ ModeIdle /\ DrainIdle /\ ToolsIdle
  /\ roster \in Rosters
  /\ wallets_file = [kind |-> "json", wallets |-> roster]
  /\ concurrent \in 1..MaxConcurrent
  /\ pinned \in BOOLEAN
  /\ active = 1
  /\ mpc = "poll" /\ round_cid = 0 /\ last_challenge_id = 0
  /\ wallet_index = 0 /\ active_miners = 0 /\ total_completed = 0
  /\ new_challenge_detected = FALSE /\ remaining = 0 /\ attempts = 0
  /\ msg = NoMsg /\ thread_handles = NoHandles /\ stop_signals = NoHandles
  /\ wstate = [p \in Positions |-> "none"]
  /\ stopFlag = [p \in Positions |-> FALSE]
  /\ chan = <<>> /\ orphans = {}
  /\ monitor_running = FALSE /\ monpc = "none" /\ monret = "none"
  /\ launchLog = <<>> /\ lateLaunches = 0 /\ blindLaunches = 0
  /\ lock = "free" /\ net = {}
  /\ spc = "off" /\ dpc = "off"
  /\ display_running = FALSE /\ loop_count = 0

InitPool == InitScheduler /\ status = NotFollowed

MainStep ==
  \/ MainPoll \/ MainSetup \/ MainBatch \/ MainLoopCheck \/ MainRecv
  \/ MainJoin \/ MainUpdate \/ MainRotate \/ MainStopMonitor
  \/ MainJoinMonitor \/ MainCancelSignal \/ MainCancelWait
  \/ MainCancelWaitJoin \/ MainCancelJoin \/ MainCancelCleanup
  \/ MainFinal \/ MainFinalJoin \/ MainNextWait

NextPool ==
  \/ MainPoll
  \/ MainSetup
  \/ MainBatch
  \/ MainLoopCheck
  \/ MainRecv
  \/ MainJoin
  \/ MainUpdate
  \/ MainRotate
  \/ MainStopMonitor
  \/ MainJoinMonitor
  \/ MainCancelSignal
  \/ MainCancelWait
  \/ MainCancelWaitJoin
  \/ MainCancelJoin
  \/ MainCancelCleanup
  \/ MainFinal
  \/ MainFinalJoin
  \/ MainNextWait
  \/ \E p \in Positions : WorkerFinish(p)
  \/ \E p \in Positions : OrphanExit(p)
  \/ MonCheck
  \/ MonPoll
  \/ Rotation

SpecPool == InitPool /\ [][NextPool]_vars

\* ------------------------------------------------- the start of the pool
\* The roster file as the function finds it: a file that cannot be read,
\* text that is no list of wallets, or a list of none, one or more wallets.
WalletsFiles ==
  {[kind |-> "unreadable", wallets |-> <<>>],
   [kind |-> "unparsable", wallets |-> <<>>],
   [kind |-> "json", wallets |-> <<>>]}
    \cup {[kind |-> "json", wallets |-> r] : r \in Rosters}

InitLoad ==
  /\ marker = NoMarkers /\ queue = {} /\ receipt = {} /\ altReceipt = {}
  /\ pc = "idle" /\ ret = "idle" /\ rkey = <<0, 1>>
  /\ rsol = NoKey /\ rres = "none" /\ rlog = "none"
  /\ marker0 = marker /\ queue0 = queue /\ prevKey = NoKey /\ prevWarn = NoKey
  /\ found = {}
  /\ ModeIdle /\ DrainIdle /\ ToolsIdle
  /\ wallets_file \in WalletsFiles
  /\ roster = <<>>
  /\ concurrent \in 1..MaxConcurrent
  /\ pinned \in BOOLEAN
  /\ active = 1
  /\ mpc = "load" /\ round_cid = 0 /\ last_challenge_id = 0
  /\ wallet_index = 0 /\ active_miners = 0 /\ total_completed = 0
  /\ new_challenge_detected = FALSE /\ remaining = 0 /\ attempts = 0
  /\ msg = NoMsg /\ thread_handles = NoHandles /\ stop_signals = NoHandles
  /\ wstate = [p \in Positions |-> "none"]
  /\ stopFlag = [p \in Positions |-> FALSE]
  /\ chan = <<>> /\ orphans = {}
  /\ monitor_running = FALSE /\ monpc = "none" /\ monret = "none"
  /\ launchLog = <<>> /\ lateLaunches = 0 /\ blindLaunches = 0
  /\ StatsIdle

\* The function from its call to the end of the round's initial batch.
NextLoad ==
  \/ MainLoad
  \/ MainPoll
  \/ MainSetup
  \/ MainBatch
  \/ Rotation

SpecLoad == InitLoad /\ [][NextLoad]_vars

\* No challenge has been polled and no thread of a round has been started.
NothingStarted ==
  /\ round_cid = 0 /\ last_challenge_id = 0
  /\ monpc = "none" /\ ~monitor_running
  /\ dpc = "off" /\ ~display_running
  /\ \A p \in Positions : wstate[p] = "none"
  /\ launchLog = <<>> /\ chan = <<>>

\* The loader's step: a file that cannot be read or parsed, or that lists
\* no wallet, ends the function with nothing started; any other file gives
\* the roster of its entries. After the error the function does nothing.
LoadStep ==
  /\ (mpc = "load" /\ mpc' # "load") =>
       IF wallets_file.kind # "json" \/ Len(wallets_file.wallets) = 0
         THEN mpc' = "load_failed" /\ NothingStarted'
         ELSE mpc' = "poll" /\ roster' = wallets_file.wallets
  /\ mpc = "load_failed" => mpc' = "load_failed" /\ NothingStarted'

\* A round has a roster of one wallet or more.
RoundHasRoster ==
  /\ mpc \in {"load", "load_failed"} => NothingStarted
  /\ mpc \notin {"load", "load_failed"} => Len(roster) >= 1

\* C28: run_wallet_pool_mining requires a roster of at least one entry: if
\* the roster file cannot be read, cannot be parsed or holds no entry, it
\* returns an error before any challenge is polled and before any display,
\* monitor or worker thread is started.
RosterRequired == []RoundHasRoster /\ [][LoadStep]_vars

\* C28 witness: the function has returned the error for a file that was
\* read and parsed and lists no wallet.
ReturnedWithoutRoster ==
  /\ mpc = "load_failed"
  /\ wallets_file.kind = "json" /\ wallets_file.wallets = <<>>

\* The steps of a run in which the coordinator keeps its challenge: no
\* rotation, so no signal and no cancellation.
NextPoolNoRotation ==
  \/ MainPoll
  \/ MainSetup
  \/ MainBatch
  \/ MainLoopCheck
  \/ MainRecv
  \/ MainJoin
  \/ MainUpdate
  \/ MainRotate
  \/ MainStopMonitor
  \/ MainJoinMonitor
  \/ MainFinal
  \/ MainFinalJoin
  \/ MainNextWait
  \/ \E p \in Positions : WorkerFinish(p)
  \/ MonCheck
  \/ MonPoll

\* The scheduler, the workers and the monitor all keep running; a worker's
\* run terminates and its result is sent.
SpecPoolFair ==
  /\ InitPool
  /\ [][NextPoolNoRotation]_vars
  /\ WF_vars(MainStep)
  /\ WF_vars(MonCheck \/ MonPoll)
  /\ \A p \in Positions : WF_vars(WorkerFinish(p))

\* A roster whose entries carry pairwise different names: every handle and
\* every stop signal stays stored under its name until it is used.
DistinctNames(r) == \A i, j \in DOMAIN r : r[i] = r[j] => i = j

InitPoolDistinct == InitPool /\ DistinctNames(roster)

\* The steps of a run on such a roster: no thread is left without a handle,
\* so none outlives its round.
NextPoolJoined ==
  \/ MainPoll
  \/ MainSetup
  \/ MainBatch
  \/ MainLoopCheck
  \/ MainRecv
  \/ MainJoin
  \/ MainUpdate
  \/ MainRotate
  \/ MainStopMonitor
  \/ MainJoinMonitor
  \/ MainCancelSignal
  \/ MainCancelWait
  \/ MainCancelWaitJoin
  \/ MainCancelJoin
  \/ MainCancelCleanup
  \/ MainFinal
  \/ MainFinalJoin
  \/ MainNextWait
  \/ \E p \in Positions : WorkerFinish(p)
  \/ MonCheck
  \/ MonPoll
  \/ Rotation

\* The scheduler and the monitor keep running while the coordinator rotates;
\* nothing is assumed of the workers, whose search may never end.
SpecPoolSched ==
  /\ InitPoolDistinct
  /\ [][NextPoolJoined]_vars
  /\ WF_vars(MainStep)
  /\ WF_vars(MonCheck \/ MonPoll)

\* Workers launched in this round and not yet recorded as completed.
Outstanding == Len(launchLog) - total_completed

\* The monitor has set the cancellation signal of this round.
RotationSignalled == monret = "true"

\* C7: whenever the completion loop waits for the next result in a round
\* without a rotation signal, the workers launched and not yet recorded as
\* completed are exactly min(K, N - completed), which is the miner count the
\* scheduler keeps, and never more than K.
ExactlyMinKRemaining ==
  (mpc = "recv" /\ ~RotationSignalled) =>
     /\ Outstanding = Min(concurrent, NumWallets - total_completed)
     /\ active_miners = Outstanding
     /\ Outstanding <= concurrent

\* A wait of the loop after a completion, with fewer entries left than slots.
WaitsWithFewerThanK ==
  /\ mpc = "recv" /\ ~RotationSignalled
  /\ total_completed > 0
  /\ NumWallets - total_completed < concurrent

\* The completion loop has ended because every roster entry has completed.
LoopExitedComplete ==
  /\ mpc = "stop_monitor"
  /\ ~new_challenge_detected
  /\ total_completed = NumWallets
  /\ launchLog = [i \in 1..NumWallets |-> i]

\* C8: when no rotation is signalled and every worker's run ends with its
\* result sent, a round that has started its initial batch leaves the
\* completion loop with as many completions as the roster has entries, every
\* entry launched once.
RoundCompletesRoster ==
  (mpc = "batch") ~> LoopExitedComplete

\* A loop that has exited after a roster longer than the concurrency limit.
ExitedAfterWholeRoster ==
  /\ LoopExitedComplete /\ ~RotationSignalled
  /\ NumWallets > concurrent
  /\ Len(launchLog) = NumWallets

\* C9: the i-th launch of a round is roster entry i, so no entry is launched
\* twice, whatever its result was; and at the head of every loop iteration
\* the slot of each completion has been refilled while entries were left.
LaunchesInRosterOrder ==
  /\ \A i \in 1..Len(launchLog) : launchLog[i] = i
  /\ Len(launchLog) = wallet_index
  /\ mpc = "loop" => wallet_index = Min(NumWallets, concurrent + total_completed)

\* A failed worker's slot has been refilled with the next entry.
RefilledAfterMiningFailed ==
  /\ mpc = "loop"
  /\ msg.result = "MiningFailed"
  /\ msg.from = 1
  /\ Len(launchLog) = concurrent + 1

\* C10 as stated: no worker is launched once the monitor has set the signal.
NoLaunchAfterSignal == lateLaunches = 0

\* C10: after the monitor has set the signal the scheduler launches no
\* worker once its loop has seen the signal; the launches that can still
\* follow the signal are those before the loop's next look at it, never more
\* than one initial batch.
NoLaunchAfterSignalSeen ==
  /\ blindLaunches = 0
  /\ lateLaunches <= InitialBatch

\* The loop has seen a signal that one launch followed.
SignalSeenAfterLateLaunch ==
  /\ new_challenge_detected
  /\ lateLaunches = 1
  /\ mpc = "cancel_signal"

\* The workers of the round whose result the completion loop has not taken:
\* still running, or exited with the result in the channel.
ActiveWorkers ==
  { p \in Positions :
      wstate[p] = "running" \/ \E i \in DOMAIN chan : chan[i].from = p }

\* The scheduler is past the loop that sets the stop signals and waits for
\* the cancelled workers, or joins them.
WaitsForCancelled == mpc \in {"cancel_wait", "cancel_wait_join", "cancel_join"}

\* C11 as stated: once the scheduler waits for the cancelled workers, every
\* worker that was launched and whose result has not been processed has its
\* own cancellation flag set.
EveryActiveWorkerFlagged ==
  WaitsForCancelled => \A p \in ActiveWorkers : stopFlag[p]

\* The round is over: its data is dropped, or the next challenge is awaited
\* or fetched.
RoundOver ==
  \/ mpc \in {"cancel_cleanup", "next_wait", "exit"}
  \/ mpc = "poll" /\ round_cid # 0

\* C12 as stated: when a round's data is dropped and the next round fetches
\* its challenge, no worker thread of the round still runs, and no thread of
\* an earlier round runs next to a later round's workers.
AllJoinedBeforeNextRound ==
  /\ RoundOver => \A p \in Positions : wstate[p] # "running"
  /\ orphans = {}

\* C13 as stated: after the rotation was seen the scheduler's wait for the
\* cancelled workers ends, whatever the workers do, and the next round's
\* challenge is fetched.
CancelledRoundRestarts ==
  (mpc = "cancel_wait") ~> (mpc = "poll")

\* C15: a completion loop that waits for the next result while the
\* monitor's signal is set enters the cancellation path, unless a worker's
\* result arrives first; the wait for a result is never the last step.
SignalEndsCompletionLoop ==
  (/\ RotationSignalled
   /\ mpc \in {"loop", "recv"}
   /\ total_completed < NumWallets
   /\ chan = <<>>)
    ~> (mpc = "cancel_signal" \/ chan # <<>>)

\* The cancellation path is entered in a round none of whose workers has
\* reported a result.
CancelledWithoutAnyResult ==
  /\ mpc = "cancel_signal" /\ new_challenge_detected
  /\ total_completed = 0 /\ chan = <<>>
  /\ \A i \in 1..InitialBatch : wstate[i] = "running"

\* A run on a pinned challenge: the monitor never signals, the
\* cancellation path and the wait for a next challenge are never entered,
\* and the run ends after the whole roster has completed.
PinnedRunState ==
  pinned =>
    /\ monret # "true" /\ ~new_challenge_detected
    /\ ~WaitsForCancelled
    /\ mpc \notin {"cancel_signal", "cancel_cleanup", "next_wait"}
    /\ mpc = "exit" =>
         /\ total_completed = NumWallets
         /\ launchLog = [i \in 1..NumWallets |-> i]

\* A pinned run starts a round only when none was started before.
PinnedStartsOneRound ==
  (pinned /\ mpc = "poll" /\ mpc' = "setup") => last_challenge_id = 0

\* C16: with a pinned challenge the scheduler never signals rotation, runs
\* one round over the roster and then ends instead of polling for a next
\* challenge, also when the coordinator's active challenge changes meanwhile.
PinnedRunsOneRound ==
  /\ []PinnedRunState
  /\ [][PinnedStartsOneRound]_vars

\* A pinned run has ended after its roster although the coordinator has
\* moved on to another challenge.
PinnedRunEnded ==
  /\ pinned /\ mpc = "exit"
  /\ active # round_cid
  /\ NumWallets > concurrent

\* The wait for the next challenge follows a normally completed round of a
\* run that follows the active challenge, and counts at most max_attempts.
NextWaitBounded ==
  /\ attempts <= max_attempts
  /\ mpc = "next_wait" =>
       /\ attempts < max_attempts
       /\ ~pinned /\ ~new_challenge_detected
       /\ total_completed = NumWallets

\* Each poll of the wait counts as one attempt whatever it answers; the wait
\* ends exactly when the poll answers a challenge with another id than the
\* completed round's, or when the attempt was the last one allowed; it ends
\* by going back to the outer loop.
NextWaitEnds ==
  \A ans \in PollAnswers :
    MainNextWaitPoll(ans) =>
      /\ attempts' = attempts + 1
      /\ mpc' \in {"poll", "next_wait"}
      /\ mpc' = "poll" <=>
           \/ ans = "challenge" /\ PolledId # last_challenge_id
           \/ attempts' = max_attempts

\* C17: after a normally completed round without a pin the wait for the
\* next challenge makes at most 60 polls, ends at the first poll that
\* answers a new challenge id and otherwise after the 60th, and an error or
\* "no active challenge" is one more attempt, never the end of the run.
NextWaitIsCapped ==
  /\ []NextWaitBounded
  /\ [][NextWaitEnds]_vars

\* The 60th poll has given control back to the outer loop, the coordinator
\* still on the completed round's challenge.
WaitGaveUp ==
  /\ mpc = "poll" /\ attempts = max_attempts
  /\ active = last_challenge_id

\* ------------------------------------------------- the live-stats lock
\* The accesses of one pool run to its Arc<Mutex<LiveStats>> and the
\* requests to the coordinator around them, by the scheduler thread, the
\* display thread and the workers. A critical section without a blocking
\* call in it is one step, taken when the lock is free; a section with a
\* request in it keeps the lock over several steps.
Threads == {"main", "display", "worker"}

\* mining.rs:662  if loop_count % 15 == 0
RefreshEvery == 15

\* Everything but the live statistics.
nonStatsVars == <<diskVars, recVars, histVars, modeVars, drainVars, poolCfgVars,
                  active, schedVars, workerVars, monVars, poolHistVars,
                  liveVars, toolVars>>

\* Mutex::lock returns when no thread holds the lock.
LockFree == lock = "free"

\* mining.rs:736-772  initial batch: the wallet's status under the lock,
\* then the worker is spawned
StatsBatch ==
  /\ spc = "batch" /\ LockFree
  /\ spc' \in {"batch", "loop"}
  /\ UNCHANGED <<lock, net, dpc, display_running, loop_count, nonStatsVars>>

\* mining.rs:788-806  a result is received; after FoundAndQueued the address
\* is read under the lock, which the end of the block releases
StatsResult ==
  /\ spc = "loop"
  /\ \/ LockFree /\ spc' = "fetch"
     \/ spc' = "update"
  /\ UNCHANGED <<lock, net, dpc, display_running, loop_count, nonStatsVars>>

\* mining.rs:809-810  api::fetch_statistics for the wallet that solved
StatsFetch ==
  /\ spc = "fetch"
  /\ net' = net \cup {"main"}
  /\ spc' = "fetching"
  /\ UNCHANGED <<lock, dpc, display_running, loop_count, nonStatsVars>>

StatsFetched ==
  /\ spc = "fetching"
  /\ net' = net \ {"main"}
  /\ spc' = "update"
  /\ UNCHANGED <<lock, dpc, display_running, loop_count, nonStatsVars>>

\* mining.rs:815-834  the wallet's status under the lock
StatsUpdate ==
  /\ spc = "update" /\ LockFree
  /\ spc' \in {"rotate", "loop"}
  /\ UNCHANGED <<lock, net, dpc, display_running, loop_count, nonStatsVars>>

\* mining.rs:839-874  the next wallet's status under the lock, then its spawn
StatsRotate ==
  /\ spc = "rotate" /\ LockFree
  /\ spc' = "loop"
  /\ UNCHANGED <<lock, net, dpc, display_running, loop_count, nonStatsVars>>

\* mining.rs:779-785, 892-896  the loop ends: roster completed, or rotation
StatsLoopEnds ==
  /\ spc = "loop"
  /\ spc' \in {"refresh", "cancel"}
  /\ UNCHANGED <<lock, net, dpc, display_running, loop_count, nonStatsVars>>

\* mining.rs:959-960  let mut stats = live_stats.lock().unwrap();
StatsRefreshLock ==
  /\ spc = "refresh" /\ LockFree
  /\ lock' = "main"
  /\ spc' = "refresh_locked"
  /\ UNCHANGED <<net, dpc, display_running, loop_count, nonStatsVars>>

\* mining.rs:961-962  for each wallet: api::fetch_statistics, inside the
\* block that holds stats
StatsRefreshFetch ==
  /\ spc = "refresh_locked"
  /\ net' = net \cup {"main"}
  /\ spc' = "refresh_fetching"
  /\ UNCHANGED <<lock, dpc, display_running, loop_count, nonStatsVars>>

\* mining.rs:962-965  the request returns, the counts are stored
StatsRefreshFetched ==
  /\ spc = "refresh_fetching"
  /\ net' = net \ {"main"}
  /\ spc' = "refresh_locked"
  /\ UNCHANGED <<lock, dpc, display_running, loop_count, nonStatsVars>>

\* mining.rs:966-967  the loop over the wallets ends, the block ends
StatsRefreshUnlock ==
  /\ spc = "refresh_locked"
  /\ lock' = "free"
  /\ spc' = "stop_display"
  /\ UNCHANGED <<net, dpc, display_running, loop_count, nonStatsVars>>

\* mining.rs:933, 970  display_running.store(false)
StatsStopDisplay ==
  /\ spc \in {"stop_display", "cancel"}
  /\ display_running' = FALSE
  /\ spc' = IF spc = "cancel" THEN "cancel_join" ELSE "join_display"
  /\ UNCHANGED <<lock, net, dpc, loop_count, nonStatsVars>>

\* mining.rs:934, 971  display_handle.join()
StatsJoinDisplay ==
  /\ spc \in {"join_display", "cancel_join"}
  /\ dpc = "done"
  /\ spc' = IF spc = "cancel_join" THEN "done" ELSE "final"
  /\ UNCHANGED <<lock, net, dpc, display_running, loop_count, nonStatsVars>>

\* mining.rs:973-990  the final display under the lock
StatsFinal ==
  /\ spc = "final" /\ LockFree
  /\ spc' = "done"
  /\ UNCHANGED <<lock, net, dpc, display_running, loop_count, nonStatsVars>>

\* mining.rs:558-653, 948, 1045  the next round: new statistics, new
\* display thread
StatsNextRound ==
  /\ spc = "done"
  /\ spc' = "batch"
  /\ dpc' = "check" /\ display_running' = TRUE /\ loop_count' = 0
  /\ UNCHANGED <<lock, net, nonStatsVars>>

\* mining.rs:655  while display_running_clone.load(..)
DisplayCheck ==
  /\ dpc = "check"
  /\ dpc' = IF display_running THEN "render" ELSE "done"
  /\ UNCHANGED <<lock, net, spc, display_running, loop_count, nonStatsVars>>

\* mining.rs:657-662  the dashboard is rendered under the lock
DisplayRender ==
  /\ dpc = "render" /\ LockFree
  /\ dpc' = IF loop_count % RefreshEvery = 0 THEN "address" ELSE "sleep"
  /\ UNCHANGED <<lock, net, spc, display_running, loop_count, nonStatsVars>>

\* mining.rs:663-667  the first wallet's address is cloned under the lock,
\* drop(stats) releases it before the request
DisplayAddress ==
  /\ dpc = "address" /\ LockFree
  /\ dpc' = "fetch"
  /\ UNCHANGED <<lock, net, spc, display_running, loop_count, nonStatsVars>>

\* mining.rs:669  api::fetch_statistics
DisplayFetch ==
  /\ dpc = "fetch"
  /\ net' = net \cup {"display"}
  /\ dpc' = "fetching"
  /\ UNCHANGED <<lock, spc, display_running, loop_count, nonStatsVars>>

\* mining.rs:669-670  Ok: the network counts are to be stored; Err: nothing
DisplayFetched ==
  /\ dpc = "fetching"
  /\ net' = net \ {"display"}
  /\ dpc' \in {"store", "sleep"}
  /\ UNCHANGED <<lock, spc, display_running, loop_count, nonStatsVars>>

\* mining.rs:670-680  the network counts are stored under the lock
DisplayStore ==
  /\ dpc = "store" /\ LockFree
  /\ dpc' = "sleep"
  /\ UNCHANGED <<lock, net, spc, display_running, loop_count, nonStatsVars>>

\* mining.rs:686-687  loop_count += 1; sleep
DisplaySleep ==
  /\ dpc = "sleep"
  /\ loop_count' = (loop_count + 1) % RefreshEvery
  /\ dpc' = "check"
  /\ UNCHANGED <<lock, net, spc, display_running, nonStatsVars>>

\* mining.rs:1057, 1088-1126  a worker's requests (statistics, registration,
\* donation); mine_single_wallet_quiet never touches its _live_stats
WorkerRequest ==
  /\ "worker" \notin net
  /\ net' = net \cup {"worker"}
  /\ UNCHANGED <<lock, spc, dpc, display_running, loop_count, nonStatsVars>>

WorkerRequestReturns ==
  /\ "worker" \in net
  /\ net' = net \ {"worker"}
  /\ UNCHANGED <<lock, spc, dpc, display_running, loop_count, nonStatsVars>>

InitStats ==
  /\ marker = NoMarkers /\ queue = {} /\ receipt = {} /\ altReceipt = {}
  /\ pc = "idle" /\ ret = "idle" /\ rkey = <<0, 1>>
  /\ rsol = NoKey /\ rres = "none" /\ rlog = "none"
  /\ marker0 = marker /\ queue0 = queue /\ prevKey = NoKey /\ prevWarn = NoKey /\ found = {}
  /\ ModeIdle /\ DrainIdle /\ ToolsIdle
  /\ pinned = FALSE /\ active = 1 /\ SchedulerIdle
  /\ status = NotFollowed
  /\ lock = "free" /\ net = {}
  /\ spc = "batch" /\ dpc = "check"
  /\ display_running = TRUE /\ loop_count = 0

NextStats ==
  \/ StatsBatch
  \/ StatsResult
  \/ StatsFetch
  \/ StatsFetched
  \/ StatsUpdate
  \/ StatsRotate
  \/ StatsLoopEnds
  \/ StatsRefreshLock
  \/ StatsRefreshFetch
  \/ StatsRefreshFetched
  \/ StatsRefreshUnlock
  \/ StatsStopDisplay
  \/ StatsJoinDisplay
  \/ StatsFinal
  \/ StatsNextRound
  \/ DisplayCheck
  \/ DisplayRender
  \/ DisplayAddress
  \/ DisplayFetch
  \/ DisplayFetched
  \/ DisplayStore
  \/ DisplaySleep
  \/ WorkerRequest
  \/ WorkerRequestReturns

SpecStats == InitStats /\ [][NextStats]_vars

\* C14 as stated: a thread that has a request to the coordinator in
\* progress does not hold the live-stats lock, so the display thread never
\* waits for the lock as long as a request takes.
NoLockAcrossNetwork ==
  /\ \A t \in net : lock # t
  /\ ~(dpc \in {"render", "address", "store"} /\ lock \in net)

\* ------------------------------------------------ the background submitter
\* Started by run_app when a data directory is configured; it scans the
\* pending queue and submits each entry to the coordinator.
DrainResponses == {"success", "already", "retry"}

\* Where the submitter writes the receipt of a confirmed solution: the path
\* of the identity's locator, or <challenge>/persistent/<address>.
ReceiptPaths == {"expected", "alternate"}

\* Mutation: the entry is removed whatever the answer was.
DrainDefinitiveAlways(resp) == TRUE

\* A definitive success or a definitive "already accepted".
DrainDefinitive(resp) == resp \in {"success", "already"}

\* The receipt is written and the queue entry is deleted.
DrainRemove(k) ==
  /\ queue' = queue \ {k}
  /\ \E path \in ReceiptPaths :
       IF path = "expected"
         THEN receipt' = receipt \cup {k} /\ UNCHANGED altReceipt
         ELSE altReceipt' = altReceipt \cup {k} /\ UNCHANGED receipt

\* One pass of the submitter over the entry k: the submission, the
\* coordinator's answer, and what the submitter does with it. The
\* coordinator accepts the solution, says it has it already, or the request
\* fails in a way that is retried (the solution may have been accepted all
\* the same). A definitive answer writes the receipt and deletes the entry,
\* a retryable failure leaves the entry for a later pass.
DrainEntry(k, resp) ==
  /\ k \in queue
  /\ CASE resp = "success" -> k \notin accepted /\ accepted' = accepted \cup {k}
       [] resp = "already" -> k \in accepted /\ UNCHANGED accepted
       [] resp = "retry" -> accepted' \in {accepted, accepted \cup {k}}
  /\ IF DrainDefinitive(resp)
       THEN DrainRemove(k)
       ELSE UNCHANGED <<queue, receipt, altReceipt>>
  /\ UNCHANGED marker
  /\ UNCHANGED <<recVars, histVars, modeVars, poolVars>>

Drain == \E k \in Keys, resp \in DrainResponses : DrainEntry(k, resp)

\* ------------------------------------------------ the queue and its drainer
\* A producer that enqueues the solutions found by every identity for the
\* first challenge and by the first identity for every challenge, each pair
\* once, and the submitter that drains the queue.
ProducedKeys == {k \in Keys : k[1] = 0 \/ k[2] = 1}

Produce ==
  /\ \E k \in ProducedKeys \ found :
       /\ queue' = SavePendingSolution(queue, k)
       /\ found' = found \cup {k}
  /\ UNCHANGED <<marker, receipt, altReceipt, marker0, queue0, prevKey,
                 prevWarn>>
  /\ UNCHANGED <<recVars, modeVars, drainVars, poolVars>>

InitDrain ==
  /\ marker = NoMarkers /\ queue = {} /\ receipt = {} /\ altReceipt = {}
  /\ pc = "idle" /\ ret = "idle" /\ rkey = <<0, 1>>
  /\ rsol = NoKey /\ rres = "none" /\ rlog = "none"
  /\ marker0 = marker /\ queue0 = queue /\ prevKey = NoKey /\ prevWarn = NoKey /\ found = {}
  /\ PoolIdle /\ ModeIdle /\ DrainIdle /\ ToolsIdle

NextDrain ==
  \/ Produce
  \/ Drain

\* The submitter keeps running and the coordinator eventually gives a
\* definitive answer for every entry that is submitted again and again.
SpecDrain ==
  /\ InitDrain
  /\ [][NextDrain]_vars
  /\ \A k \in ProducedKeys :
       SF_vars(DrainEntry(k, "success") \/ DrainEntry(k, "already"))

\* Every solution that was queued is still queued or confirmed; an entry
\* that is gone has a receipt; the entry of a submission that failed in a
\* retryable way is still there.
QueuedOrConfirmed ==
  /\ \A k \in found : k \in queue \/ k \in accepted
  /\ \A k \in found \ queue : k \in accepted /\ k \in receipt \cup altReceipt

\* A pass that ends in a retryable failure leaves the entry in the queue,
\* and an entry leaves the queue only when the coordinator has the solution.
RetryLeavesEntry ==
  /\ \A k \in Keys : DrainEntry(k, "retry") => k \in queue'
  /\ \A k \in queue \ queue' : k \in accepted'

\* C4: the drainer removes a queue entry only after a definitive success or
\* a definitive "already accepted" answer, a retryable failure leaves the
\* entry, so every queued solution is still queued or confirmed at every
\* point in time; and with a coordinator that eventually answers every
\* entry is eventually removed.
RemovedOnlyWhenConfirmed ==
  /\ []QueuedOrConfirmed
  /\ [][RetryLeavesEntry]_vars
  /\ \A k \in ProducedKeys : (k \in queue) ~> (k \notin queue)

\* One entry has been removed after a definitive answer, another is still
\* queued after a retryable failure although the coordinator has it.
RemovedAfterRetry ==
  /\ \E k \in queue : k \in accepted
  /\ \E k \in found \ queue : k \in accepted

\* --------------------------------------------------------- the mining modes
\* One process runs one mode with a data directory configured, next to the
\* submitter, while the coordinator keeps its first challenge. pc is the
\* position of the mode's thread; the recovery is called from it.
Modes == {"persistent", "mnemonic", "ephemeral", "pool"}

recData == <<ret, rkey, rsol, rres, rlog>>
recCall == <<ret, rkey, rsol>>
modeCfgVars == <<mode, donate_to_option, mnemonic_starting_index>>

Max(a, b) == IF a >= b THEN a ELSE b

\* u32::wrapping_add(1), on an index space scaled down to the identities of
\* the model: the successor of the largest index is 0.
WrappingAdd1(i) == (i + 1) % NumIdentities

\* The pair the mode is mining.
MiningKey == <<address, cid>>

\* Identities without any file in the data directory.
Untouched ==
  { i \in Identities :
      \A c \in ChallengeIds :
        /\ marker[<<i, c>>] = "absent"
        /\ <<i, c>> \notin (queue \cup receipt \cup altReceipt) }

\* What get_challenge_params answers: Ok(Some(..)) with the challenge
\* PolledId, Ok(None), an Err whose text holds "API request failed", or
\* another Err.
SourceAnswers == {"challenge", "none", "network_error", "error"}

\* What api::register_address answers: Ok, the coordinator's rejection of an
\* address that is registered already (an Err, 400 Bad Request), or
\* another Err.
RegAnswers == {"ok", "already_registered", "error"}

\* mining.rs:172-177  the persistent key is registered before the loop:
\* if let Err(e) = api::register_address(..) { return Err(..) }
PersistentRegisterAnswer(ans) ==
  /\ pc = "p_register" /\ mode = "persistent"
  /\ pc' = IF ans = "ok" THEN "poll" ELSE "stopped"
  /\ UNCHANGED <<diskVars, recData, histVars, modeVars, drainVars, poolVars>>

PersistentRegister == \E ans \in RegAnswers : PersistentRegisterAnswer(ans)

\* The id in current_challenge_id when get_challenge_params has returned an
\* Err: the callee stores an id only together with a challenge, and the
\* mnemonic mode has cleared the variable before the call (mining.rs:293).
KnownId == IF mode = "mnemonic" THEN 0 ELSE current_challenge_id

\* Mutation: the fallback is taken without a known id.
ContinuesWithoutId(ans) == ans = "network_error"

\* mining.rs:195, 314, 465
\*   !current_challenge_id.is_empty() && e.contains("API request failed")
ContinuesWithLast(ans) == ans = "network_error" /\ KnownId # 0

\* mining.rs:197-199, 316-319, 467-469
\*   last_active_challenge_data.as_ref().cloned().ok_or_else(..)? finds data
HasLastData == cid # 0

\* mining.rs:278-279  Backoff::new(5, 300, 2.0): base, cap and multiplier
BackoffNew == [base |-> 5, cap |-> 300, multiplier |-> 2]

\* Mutation: the delay is not capped.
BackoffDelayUncapped(n) ==
  BackoffNew.base * BackoffNew.multiplier ^ n

\* min(base * multiplier^attempts, cap), for attempts = n
BackoffDelay(n) ==
  Min(BackoffNew.base * BackoffNew.multiplier ^ n, BackoffNew.cap)

\* Backoff::sleep and Backoff::reset as they change the instance b of the
\* instances bk
sleep(bk, b) ==
  [bk EXCEPT !.bk_delay[b] = BackoffDelay(bk.bk_attempts[b]),
             !.bk_attempts[b] = @ + 1,
             !.bk_peak[b] = Max(@, BackoffDelay(bk.bk_attempts[b]))]
reset(bk, b) == [bk EXCEPT !.bk_attempts[b] = 0, !.bk_delay[b] = 0]

\* mining.rs:291-323  the poll's calls on backoff_challenge: a reset at the top
\* of every pass of the loop, a reset again when the call returned or the
\* last challenge is used, a sleep otherwise; failed_polls counts the failed
\* polls since the last poll that returned
RegBackoff(bk, failed) ==
  IF ~InLoop(bk) THEN bk
  ELSE IF failed THEN sleep(bk, "reg") ELSE reset(bk, "reg")

PollBackoff(bk, failed) ==
  IF ~InLoop(bk) THEN bk
  ELSE IF failed
    THEN [sleep(reset(bk, "challenge"), "challenge") EXCEPT !.failed_polls = @ + 1]
    ELSE [reset(reset(bk, "challenge"), "challenge") EXCEPT !.failed_polls = 0]

\* mining.rs:187-206, 457-476  get_challenge_params in the persistent and
\* the ephemeral mode: a challenge; after a network failure the one held in
\* last_active_challenge_data, which is the challenge cid; or another poll
ModePollAnswer(ans) ==
  /\ pc = "poll" /\ mode \in {"persistent", "ephemeral"}
  /\ IF ans = "challenge"
       THEN /\ cid' = PolledId
            /\ current_challenge_id' = PolledId
            /\ pc' = "polled"
       ELSE /\ pc' = IF ContinuesWithLast(ans)
                       THEN IF HasLastData THEN "polled" ELSE "fatal"
                       ELSE "poll"
            /\ UNCHANGED <<cid, current_challenge_id>>
  /\ UNCHANGED <<modeCfgVars, address, wallet_deriv_index, first_run,
                 last_seen_challenge_id, result>>
  /\ UNCHANGED <<diskVars, recData, histVars, drainVars, poolVars>>

ModePoll == \E ans \in SourceAnswers : ModePollAnswer(ans)

\* mining.rs:208-211  the persistent key's recovery
PersistentRecover ==
  /\ pc = "polled" /\ mode = "persistent"
  /\ RecEnter(MiningKey, "p_recovered")
  /\ UNCHANGED <<diskVars, modeVars, drainVars, poolVars>>

\* Mutation: the caller goes on after a failed recovery.
PropagatesNever == FALSE

\* mining.rs:210, 346  check_for_unsubmitted_solutions(..)?: the call's Err
\* is the mode's
Propagates == rres = "err"

\* mining.rs:210-214  a failed recovery ends the mode with its error
PersistentRecovered ==
  /\ pc = "p_recovered"
  /\ pc' = IF Propagates THEN "stopped" ELSE "search"
  /\ rres' = "none" /\ rlog' = "none"
  /\ UNCHANGED <<diskVars, recCall, histVars, modeVars, drainVars, poolVars>>

\* mining.rs:478-492  a fresh key, registered; a failed registration starts
\* the cycle again
EphemeralKey ==
  /\ pc = "polled" /\ mode = "ephemeral"
  /\ IF Untouched = {}
       THEN pc' = "stopped" /\ UNCHANGED address
       ELSE /\ address' \in Untouched
            /\ pc' \in {"search", "poll"}
  /\ UNCHANGED <<modeCfgVars, cid, wallet_deriv_index, first_run,
                 last_seen_challenge_id,
                 current_challenge_id, result>>
  /\ UNCHANGED <<diskVars, recData, histVars, drainVars, poolVars>>

\* mining.rs:291-327  the mnemonic mode's poll: current_challenge_id is
\* cleared, then get_challenge_params; the index is recomputed on the first
\* challenge and when the active challenge is a new one
MnemonicPollAnswer(ans) ==
  /\ pc = "poll" /\ mode = "mnemonic"
  /\ IF ans = "challenge"
       THEN /\ cid' = PolledId
            /\ current_challenge_id' = PolledId
            /\ IF first_run \/ (~pinned /\ PolledId # last_seen_challenge_id)
                 THEN \E n \in Identities :
                        wallet_deriv_index' = Max(n, mnemonic_starting_index)
                 ELSE UNCHANGED wallet_deriv_index
            /\ last_seen_challenge_id' = PolledId
            /\ first_run' = FALSE
            /\ pc' = "skip"
            /\ backoff' = PollBackoff(backoff, FALSE)
       ELSE /\ current_challenge_id' = 0
            /\ IF ContinuesWithLast(ans)
                 THEN IF HasLastData
                        THEN first_run' = FALSE /\ pc' = "skip"
                        ELSE pc' = "fatal" /\ UNCHANGED first_run
                 ELSE UNCHANGED <<first_run, pc>>
            /\ LET failed == ans # "none" /\ ~ContinuesWithLast(ans) IN
                 /\ failed /\ InLoop(backoff) => failed_polls < MaxWaits
                 /\ backoff' = PollBackoff(backoff, failed)
            /\ UNCHANGED <<cid, wallet_deriv_index, last_seen_challenge_id>>
  /\ UNCHANGED <<modeCfgVars, address, result>>
  /\ UNCHANGED <<diskVars, recData, histVars, drainVars, poolButBackoff>>

MnemonicPoll == \E ans \in SourceAnswers : MnemonicPollAnswer(ans)

\* mining.rs:344  if wallet_deriv_index >= cli.mnemonic_starting_index
IndexGuard == wallet_deriv_index >= mnemonic_starting_index

\* mining.rs:141-153  the call that returned wrote its marker's solution to
\* the queue (the marker deleted, or left with a warning)
Enqueued == rres = "ok" /\ rlog \in {"recovered", "warn_delete"}

\* The recovery call of the pass under way enqueued nothing.
NoPass == <<0>>

\* The passes are followed where prevKey starts as NoPass.
PassKey(k) == IF prevKey = NoKey THEN NoKey ELSE k

\* mining.rs:336-346  the address of the index, and its recovery
MnemonicSkipRecover ==
  /\ pc = "skip"
  /\ address' = wallet_deriv_index
  /\ IF IndexGuard
       THEN RecEnter(<<wallet_deriv_index, cid>>, "skip_pending")
       ELSE /\ pc' = "skip_receipt" /\ prevKey' = PassKey(NoPass)
            /\ UNCHANGED <<recData, marker0, queue0, prevWarn, found>>
  /\ UNCHANGED <<modeCfgVars, cid, wallet_deriv_index, first_run,
                 last_seen_challenge_id,
                 current_challenge_id, result>>
  /\ UNCHANGED <<diskVars, drainVars, poolVars>>

\* mining.rs:346-353  a failed recovery ends the mode; an index with a
\* pending submission is skipped
MnemonicSkipPending ==
  /\ pc = "skip_pending"
  /\ IF Propagates
       THEN pc' = "stopped" /\ UNCHANGED wallet_deriv_index
       ELSE IF MiningKey \in queue
              THEN /\ wallet_deriv_index' = WrappingAdd1(wallet_deriv_index)
                   /\ pc' = "skip"
              ELSE pc' = "skip_receipt" /\ UNCHANGED wallet_deriv_index
  /\ rres' = "none" /\ rlog' = "none"
  /\ prevKey' = PassKey(IF Enqueued THEN rkey ELSE NoPass)
  /\ UNCHANGED <<modeCfgVars, cid, address, first_run,
                 last_seen_challenge_id,
                 current_challenge_id, result>>
  /\ UNCHANGED <<diskVars, recCall, marker0, queue0, prevWarn, found,
                 drainVars, poolVars>>

\* mining.rs:358-364  an index with a receipt at the mnemonic path is skipped
MnemonicSkipReceipt ==
  /\ pc = "skip_receipt"
  /\ IF MiningKey \in receipt
       THEN /\ wallet_deriv_index' = WrappingAdd1(wallet_deriv_index)
            /\ pc' = "skip"
       ELSE pc' = "skip_alternate" /\ UNCHANGED wallet_deriv_index
  /\ UNCHANGED <<modeCfgVars, cid, address, first_run,
                 last_seen_challenge_id,
                 current_challenge_id, result>>
  /\ UNCHANGED <<diskVars, recData, histVars, drainVars, poolVars>>

\* mining.rs:366-380  an index with a receipt at the persistent path is
\* skipped; otherwise the index is mined
MnemonicSkipAlternate ==
  /\ pc = "skip_alternate"
  /\ IF MiningKey \in altReceipt
       THEN /\ wallet_deriv_index' = WrappingAdd1(wallet_deriv_index)
            /\ pc' = "skip"
       ELSE pc' = "register" /\ UNCHANGED wallet_deriv_index
  /\ UNCHANGED <<modeCfgVars, cid, address, first_run,
                 last_seen_challenge_id,
                 current_challenge_id, result>>
  /\ UNCHANGED <<diskVars, recData, histVars, drainVars, poolVars>>

\* mining.rs:384-407  registration; a failure sleeps on backoff_reg and starts
\* the outer loop again, a registration or a found statistics entry resets
\* backoff_reg, an index registered before (max_registered_index, not
\* followed) leaves it alone
MnemonicRegister ==
  /\ pc = "register"
  /\ \/ /\ pc' = "search"
        /\ backoff' \in {backoff, RegBackoff(backoff, FALSE)}
     \/ /\ pc' = "poll"
        /\ InLoop(backoff) => bk_attempts["reg"] < MaxWaits
        /\ backoff' = RegBackoff(backoff, TRUE)
  /\ UNCHANGED <<diskVars, recData, histVars, modeVars, drainVars, poolButBackoff>>

\* mining.rs:1060-1074  a pool worker starts on a wallet for the round's
\* challenge: its recovery, the result of which is ignored
PoolWorkerCall ==
  /\ pc = "poll" /\ mode = "pool"
  /\ \E a \in Identities :
       /\ address' = a
       /\ cid' = PolledId
       /\ RecEnter(<<a, PolledId>>, "w_pending")
  /\ UNCHANGED <<modeCfgVars, wallet_deriv_index, first_run,
                 last_seen_challenge_id,
                 current_challenge_id, result>>
  /\ UNCHANGED <<diskVars, drainVars, poolVars>>

\* mining.rs:1077-1080  a pending submission: AlreadySolved
PoolWorkerPending ==
  /\ pc = "w_pending"
  /\ IF MiningKey \in queue
       THEN result' = "AlreadySolved" /\ pc' = "returned"
       ELSE pc' = "w_receipt" /\ UNCHANGED result
  /\ rres' = "none" /\ rlog' = "none"
  /\ prevKey' = PassKey(IF Enqueued THEN rkey ELSE NoPass)
  /\ UNCHANGED <<modeCfgVars, cid, address, wallet_deriv_index, first_run,
                 last_seen_challenge_id,
                 current_challenge_id>>
  /\ UNCHANGED <<diskVars, recCall, marker0, queue0, prevWarn, found,
                 drainVars, poolVars>>

\* mining.rs:1082-1085  a receipt at the mnemonic path: AlreadySolved
PoolWorkerReceipt ==
  /\ pc = "w_receipt"
  /\ IF MiningKey \in receipt
       THEN result' = "AlreadySolved" /\ pc' = "returned"
       ELSE pc' = "w_register" /\ UNCHANGED result
  /\ UNCHANGED <<modeCfgVars, cid, address, wallet_deriv_index, first_run,
                 last_seen_challenge_id,
                 current_challenge_id>>
  /\ UNCHANGED <<diskVars, recData, histVars, drainVars, poolVars>>

\* mining.rs:1099-1100  the Err's text holds neither "400" nor "Bad Request"
RegistrationFatal(ans) == ans = "error"

\* mining.rs:1087-1119  registration when the statistics request failed; an
\* Err other than a 400 is MiningFailed; otherwise the mining cycle
PoolWorkerRegisterAnswer(stats_ok, ans) ==
  /\ pc = "w_register"
  /\ IF ~stats_ok /\ RegistrationFatal(ans)
       THEN result' = "MiningFailed" /\ pc' = "returned"
       ELSE pc' = "search" /\ UNCHANGED result
  /\ UNCHANGED <<modeCfgVars, cid, address, wallet_deriv_index, first_run,
                 last_seen_challenge_id,
                 current_challenge_id>>
  /\ UNCHANGED <<diskVars, recData, histVars, drainVars, poolVars>>

PoolWorkerRegister ==
  \E stats_ok \in BOOLEAN, ans \in RegAnswers :
    PoolWorkerRegisterAnswer(stats_ok, ans)

\* mining.rs:788-878  the scheduler has the worker's result and starts the
\* next worker
PoolWorkerNext ==
  /\ pc = "returned"
  /\ pc' = "poll"
  /\ result' = "none"
  /\ UNCHANGED <<modeCfgVars, cid, address, wallet_deriv_index, first_run,
                 last_seen_challenge_id,
                 current_challenge_id>>
  /\ UNCHANGED <<diskVars, recData, histVars, drainVars, poolVars>>

\* run_single_mining_cycle: the hash search. A nonce that is found is
\* written to the recovery marker first; the search can also fail, be
\* cancelled, or learn that the pair is solved already.
EngineSearch ==
  /\ pc = "search"
  /\ \/ /\ marker' = [marker EXCEPT ![MiningKey] = "solution"]
        /\ found' = found \cup {MiningKey}
        /\ pc' = "found"
        /\ UNCHANGED result
     \/ /\ result' \in {"MiningFailed", "AlreadySolved"}
        /\ pc' = "result"
        /\ UNCHANGED <<marker, found>>
  /\ UNCHANGED <<queue, receipt, altReceipt, marker0, queue0, prevKey,
                 prevWarn>>
  /\ UNCHANGED <<recData, modeCfgVars, cid, address, wallet_deriv_index,
                 first_run, last_seen_challenge_id,
                 current_challenge_id, drainVars, poolVars>>

\* run_single_mining_cycle: the solution is written to the pending queue;
\* the marker has done its work and may be deleted.
EngineEnqueue ==
  /\ queue' = SavePendingSolution(queue, MiningKey)
  /\ marker' \in {marker, [marker EXCEPT ![MiningKey] = "absent"]}

\* run_single_mining_cycle: FoundAndQueued is returned after the queue write
EngineReturn ==
  /\ pc = "found"
  /\ EngineEnqueue
  /\ result' = "FoundAndQueued"
  /\ pc' = "result"
  /\ UNCHANGED <<receipt, altReceipt, histVars>>
  /\ UNCHANGED <<recData, modeCfgVars, cid, address, wallet_deriv_index,
                 first_run, last_seen_challenge_id,
                 current_challenge_id, drainVars, poolVars>>

\* Mutation: every result takes the branch of FoundAndQueued.
FoundBranchAlways == TRUE

\* mining.rs:224, 411, 501, 1122  the branch of MiningResult::FoundAndQueued
FoundBranch == result = "FoundAndQueued"

\* mining.rs:223-225, 410-412, 500-502, 1122-1123  with a donation target
\* the donation is attempted first
ModeResultDonate ==
  /\ pc = "result"
  /\ FoundBranch /\ donate_to_option
  /\ pc' = "donate"
  /\ UNCHANGED <<diskVars, recData, histVars, modeVars, drainVars, poolVars>>

\* The result is handled, after the donation attempt if there is one.
Handled == pc = "donate" \/ (pc = "result" /\ ~(FoundBranch /\ donate_to_option))

\* What api::get_active_challenge_data answers: Ok with the challenge the
\* coordinator has active, or Err.
ValidityAnswers == {"challenge", "error"}

\* Mutation: the challenge is taken to be valid whatever the answer is.
StillSameChallengeAlways(ans) == TRUE

\* mining.rs:250  Ok(active_params)
\*                  if active_params.challenge_id == current_challenge_id
StillSameChallenge(ans) == ans = "challenge" /\ active = current_challenge_id

\* mining.rs:223-264  persistent key: FoundAndQueued and AlreadySolved leave
\* the inner loop and poll again; MiningFailed runs the cycle again with a
\* pinned challenge, and without a pin when the coordinator still has the
\* same challenge active, and leaves the inner loop otherwise. The failed
\* result stays the last result while the cycle is run again.
PersistentResultAnswer(ans) ==
  /\ Handled /\ mode = "persistent"
  /\ IF FoundBranch \/ result = "AlreadySolved"
       THEN pc' = "poll" /\ result' = "none"
       ELSE IF pinned \/ StillSameChallenge(ans)
              THEN pc' = "search" /\ UNCHANGED result
              ELSE pc' = "poll" /\ result' = "none"
  /\ UNCHANGED <<modeCfgVars, cid, address, wallet_deriv_index, first_run,
                 last_seen_challenge_id,
                 current_challenge_id>>
  /\ UNCHANGED <<diskVars, recData, histVars, drainVars, poolVars>>

PersistentResult == \E ans \in ValidityAnswers : PersistentResultAnswer(ans)

\* mining.rs:410-437  mnemonic: the index advances after FoundAndQueued and
\* AlreadySolved, MiningFailed keeps it
MnemonicResult ==
  /\ Handled /\ mode = "mnemonic"
  /\ wallet_deriv_index' =
       IF FoundBranch \/ result = "AlreadySolved"
         THEN WrappingAdd1(wallet_deriv_index)
         ELSE wallet_deriv_index
  /\ pc' = "poll"
  /\ result' = "none"
  /\ UNCHANGED <<modeCfgVars, cid, address, first_run,
                 last_seen_challenge_id,
                 current_challenge_id>>
  /\ UNCHANGED <<diskVars, recData, histVars, drainVars, poolVars>>

\* mining.rs:500-523  ephemeral: the next cycle
EphemeralResult ==
  /\ Handled /\ mode = "ephemeral"
  /\ pc' = "poll"
  /\ result' = "none"
  /\ UNCHANGED <<modeCfgVars, cid, address, wallet_deriv_index, first_run,
                 last_seen_challenge_id,
                 current_challenge_id>>
  /\ UNCHANGED <<diskVars, recData, histVars, drainVars, poolVars>>

\* mining.rs:1121-1130  pool worker: the result is returned
PoolWorkerResult ==
  /\ Handled /\ mode = "pool"
  /\ pc' = "returned"
  /\ UNCHANGED <<diskVars, recData, histVars, modeVars, drainVars, poolVars>>

\* The process ends (killed, or stopped by an error) and is started again,
\* the mnemonic mode with any starting index. The files, and what the
\* coordinator has accepted, stay.
Restart ==
  /\ pc' = IF mode = "persistent" THEN "p_register" ELSE "poll"
  /\ current_challenge_id' = 0
  /\ ret' = "idle" /\ rsol' = NoKey /\ rres' = "none" /\ rlog' = "none"
  /\ mnemonic_starting_index' \in
       IF mode = "mnemonic" THEN Identities ELSE {mnemonic_starting_index}
  /\ cid' = 0 /\ wallet_deriv_index' = 0 /\ first_run' = TRUE
  /\ last_seen_challenge_id' = 0 /\ result' = "none"
  /\ address' = IF mode = "persistent" THEN address ELSE 0
  /\ UNCHANGED <<rkey, mode, donate_to_option, accepted>>
  /\ UNCHANGED <<diskVars, histVars, poolVars>>

InitModes ==
  /\ marker = NoMarkers /\ queue = {} /\ receipt = {} /\ altReceipt = {}
  /\ mode \in Modes
  /\ pc = (IF mode = "persistent" THEN "p_register" ELSE "poll")
  /\ ret = "idle" /\ rkey = <<0, 1>>
  /\ rsol = NoKey /\ rres = "none" /\ rlog = "none"
  /\ marker0 = marker /\ queue0 = queue /\ prevKey = NoKey /\ prevWarn = NoKey /\ found = {}
  /\ donate_to_option \in BOOLEAN
  /\ mnemonic_starting_index \in IF mode = "mnemonic" THEN Identities ELSE {0}
  /\ cid = 0 /\ address = 0 /\ wallet_deriv_index = 0
  /\ first_run = TRUE /\ last_seen_challenge_id = 0 /\ result = "none"
  /\ current_challenge_id = 0
  /\ DrainIdle /\ ToolsIdle
  /\ PoolIdle

NextModes ==
  \/ PersistentRegister
  \/ ModePoll
  \/ PersistentRecover
  \/ PersistentRecovered
  \/ EphemeralKey
  \/ MnemonicPoll
  \/ MnemonicSkipRecover
  \/ MnemonicSkipPending
  \/ MnemonicSkipReceipt
  \/ MnemonicSkipAlternate
  \/ MnemonicRegister
  \/ PoolWorkerCall
  \/ PoolWorkerPending
  \/ PoolWorkerReceipt
  \/ PoolWorkerRegister
  \/ PoolWorkerNext
  \/ EngineSearch
  \/ EngineReturn
  \/ ModeResultDonate
  \/ PersistentResult
  \/ MnemonicResult
  \/ EphemeralResult
  \/ PoolWorkerResult
  \/ RecExists
  \/ RecRead
  \/ RecParse
  \/ RecSave
  \/ RecRemove
  \/ Drain
  \/ Restart

SpecModes == InitModes /\ [][NextModes]_vars

\* The solution of the pair is on the disk: in its recovery marker or in the
\* pending queue, or, once the submitter has confirmed it, in a receipt.
Durable(k) ==
  /\ k \in found
  /\ HasMarker(k) \/ k \in queue \/ k \in receipt \cup altReceipt

\* The step in which the engine returns FoundAndQueued leaves the solution
\* in the recovery marker or in the pending queue.
ReturnsFoundWhenQueued ==
  (result # "FoundAndQueued" /\ result' = "FoundAndQueued") =>
     (marker'[MiningKey] # "absent" \/ MiningKey \in queue')

\* What a mode does after FoundAndQueued, the donation attempt, the index
\* advance, the return of the pool worker's result, it does with the
\* solution durable.
PostStepsWhenDurable ==
  /\ pc = "donate" => Durable(MiningKey)
  /\ (pc \in {"result", "returned"} /\ result = "FoundAndQueued") =>
        Durable(MiningKey)

GuardedPairNeverSearched ==
  (pc = "search" /\ mode \in {"mnemonic", "pool"}) =>
     (MiningKey \notin queue /\ MiningKey \notin receipt)

\* C6 as stated: in the mnemonic mode and in a pool worker the hash search
\* is never invoked for a pair that has a receipt at the alternate path.
AlternateReceiptShortCircuits ==
  (pc = "search" /\ mode \in {"mnemonic", "pool"}) =>
     MiningKey \notin altReceipt

\* --------------------------------------------- the modes' challenge source
\* The modes beside a coordinator that rotates the challenge, with and
\* without a pinned challenge; the submitter is left out and the miner is
\* started once.
InitSource ==
  /\ marker = NoMarkers /\ queue = {} /\ receipt = {} /\ altReceipt = {}
  /\ mode \in Modes
  /\ pc = (IF mode = "persistent" THEN "p_register" ELSE "poll")
  /\ ret = "idle" /\ rkey = <<0, 1>>
  /\ rsol = NoKey /\ rres = "none" /\ rlog = "none"
  /\ marker0 = marker /\ queue0 = queue /\ prevKey = NoKey /\ prevWarn = NoKey /\ found = {}
  /\ donate_to_option \in BOOLEAN
  /\ mnemonic_starting_index = 0
  /\ cid = 0 /\ address = 0 /\ wallet_deriv_index = 0
  /\ first_run = TRUE /\ last_seen_challenge_id = 0 /\ result = "none"
  /\ current_challenge_id = 0
  /\ DrainIdle /\ ToolsIdle
  /\ pinned \in BOOLEAN /\ active = 1 /\ SchedulerIdle /\ StatsIdle

NextSource ==
  \/ Rotation
  \/ PersistentRegister
  \/ ModePoll
  \/ PersistentRecover
  \/ PersistentRecovered
  \/ EphemeralKey
  \/ MnemonicPoll
  \/ MnemonicSkipRecover
  \/ MnemonicSkipPending
  \/ MnemonicSkipReceipt
  \/ MnemonicSkipAlternate
  \/ MnemonicRegister
  \/ PoolWorkerCall
  \/ PoolWorkerPending
  \/ PoolWorkerReceipt
  \/ PoolWorkerRegister
  \/ PoolWorkerNext
  \/ EngineSearch
  \/ EngineReturn
  \/ ModeResultDonate
  \/ PersistentResult
  \/ MnemonicResult
  \/ EphemeralResult
  \/ PoolWorkerResult
  \/ RecExists
  \/ RecRead
  \/ RecParse
  \/ RecSave
  \/ RecRemove

SpecSource == InitSource /\ [][NextSource]_vars

\* A poll of the persistent, mnemonic or ephemeral mode that fails with a
\* network error continues with the challenge obtained before when there
\* is one, and stays at the poll when there is none.
NetworkFailureStep ==
  (ModePollAnswer("network_error") \/ MnemonicPollAnswer("network_error")) =>
     IF cid # 0
       THEN pc' \in {"polled", "skip"} /\ cid' = cid
       ELSE pc' = "poll" /\ cid' = 0

\* C18: once a challenge has been obtained, a poll that fails with "API
\* request failed" makes the persistent, the mnemonic and the ephemeral mode
\* continue with the last known good challenge; only when no challenge has
\* been seen does the mode wait and poll again.
ContinuesOnNetworkFailure == [][NetworkFailureStep]_vars

\* The persistent mode handles a MiningFailed result: with a pinned
\* challenge the cycle is run again; without a pin it is run again exactly
\* when the fresh poll answers with the id the mode is working on, and the
\* mode polls for a challenge otherwise.
FailedCycleStep ==
  \A ans \in ValidityAnswers :
    (PersistentResultAnswer(ans) /\ result = "MiningFailed") =>
       /\ cid' = cid
       /\ IF pinned
            THEN pc' = "search"
            ELSE IF ans = "challenge" /\ active = current_challenge_id
                   THEN pc' = "search"
                   ELSE pc' = "poll"

\* C19: after a MiningFailed result the persistent mode retries the same
\* challenge only when a fresh poll of the coordinator answers with the
\* same challenge id; when the poll fails or the id differs it returns to
\* challenge discovery; with a pinned challenge it retries unconditionally.
RetriesOnlyStillActive == [][FailedCycleStep]_vars

\* The failed cycle is being run again after the coordinator answered with
\* the id of the challenge the unpinned persistent mode works on.
RetriedAfterFreshPoll ==
  /\ mode = "persistent" /\ ~pinned
  /\ pc = "search" /\ result = "MiningFailed"
  /\ active = current_challenge_id /\ cid = current_challenge_id

\* The coordinator's rejection of an address that is registered already
\* lets the persistent mode go on to its poll and the pool worker to its
\* search.
RejectedRegistrationStep ==
  /\ PersistentRegisterAnswer("already_registered") => pc' = "poll"
  /\ \A stats_ok \in BOOLEAN :
       PoolWorkerRegisterAnswer(stats_ok, "already_registered") =>
          pc' = "search"

\* C20: in the persistent mode and in the pool mode alike, a registration
\* rejected because the address is registered already neither ends the mode
\* nor keeps the search for that identity from starting.
RejectionIsNotFatal == [][RejectedRegistrationStep]_vars

\* ------------------------------------------- functions outside the modes
\* The miner's own variables, which these functions leave alone.
programVars == <<diskVars, recVars, histVars, modeVars, drainVars, poolCfgVars,
                 active, schedVars, workerVars, monVars, poolHistVars,
                 statsVars, liveVars>>

\* No mode, no recovery, no submitter and no pool runs.
ProgramIdle ==
  /\ marker = NoMarkers /\ queue = {} /\ receipt = {} /\ altReceipt = {}
  /\ pc = "idle" /\ ret = "idle" /\ rkey = <<0, 1>>
  /\ rsol = NoKey /\ rres = "none" /\ rlog = "none"
  /\ marker0 = marker /\ queue0 = queue /\ prevKey = NoKey /\ prevWarn = NoKey
  /\ found = {}
  /\ PoolIdle /\ ModeIdle /\ DrainIdle

\* ---------------------------------------------- setup_donate_all_wallets
\* The words of an error text the function looks for, and one it does not.
ErrorWords == {"409", "Conflict", "already", "500"}

\* What api::donate_to_silent answers: Ok(donation_id), or Err(e) with the
\* words that occur in e.
DonateResponses ==
  {[ok |-> TRUE, e |-> {}]} \cup {[ok |-> FALSE, e |-> t] : t \in SUBSET ErrorWords}

\* Mutation: no error text is taken for a conflict.
ConflictNever(e) == FALSE

\* main.rs:183  e.contains("409") || e.contains("Conflict")
\*              || e.contains("already")
Conflict(e) == "409" \in e \/ "Conflict" \in e \/ "already" \in e

\* main.rs:146-192  one iteration of the loop over the wallets: the call for
\* the wallet and the counter of its answer
DonateWallet(resp) ==
  /\ dres = "none"
  /\ dpos < Len(wallets)
  /\ LET called == [donate EXCEPT !.dpos = dpos + 1,
                                  !.donateLog = Append(donateLog, dpos + 1)]
     IN IF resp.ok
          THEN donate' = [called EXCEPT !.success_count = @ + 1]
          ELSE IF Conflict(resp.e)
                 THEN donate' = [called EXCEPT !.already_donated_count = @ + 1]
                 ELSE donate' = [called EXCEPT
                                   !.failed_count = @ + 1,
                                   !.failed_wallets = Append(@, dpos + 1)]
  /\ UNCHANGED <<programVars, toolsButDonate>>

DonateNext == \E resp \in DonateResponses : DonateWallet(resp)

\* main.rs:195-220  the summary is printed and the function returns Ok(())
DonateSummary ==
  /\ dres = "none"
  /\ dpos = Len(wallets)
  /\ donate' = [donate EXCEPT !.dres = "ok"]
  /\ UNCHANGED <<programVars, toolsButDonate>>

\* main.rs:139-143  the counters before the loop, for a roster of one wallet
\* or more
InitDonate ==
  /\ ProgramIdle
  /\ \E w \in Rosters :
       donate = [wallets |-> w, dpos |-> 0, success_count |-> 0,
                 already_donated_count |-> 0, failed_count |-> 0,
                 failed_wallets |-> <<>>, donateLog |-> <<>>, dres |-> "none"]
  /\ DiffIdle /\ BackoffIdle /\ EngineIdle

NextDonate == DonateNext \/ DonateSummary

SpecDonate == InitDonate /\ [][NextDonate]_vars

\* The wallets up to the one reached were each called once, in the order
\* of the roster, and each call was counted in one counter; the function
\* has returned Ok only after the last wallet.
DonateCounted ==
  /\ donateLog = [i \in 1..dpos |-> i]
  /\ success_count + already_donated_count + failed_count = dpos
  /\ failed_count = Len(failed_wallets)
  /\ dres = "ok" => dpos = Len(wallets)
  /\ dres \in {"none", "ok"}

\* A call answered with a conflict is counted as already donated, any call
\* moves on to the next wallet.
DonateStep ==
  \A resp \in DonateResponses :
    DonateWallet(resp) =>
      /\ dpos' = dpos + 1
      /\ (~resp.ok /\ ({"409", "Conflict", "already"} \cap resp.e # {})) =>
            /\ already_donated_count' = already_donated_count + 1
            /\ failed_count' = failed_count

\* C29: in setup_donate_all_wallets a donation answered with a conflict
\* (409, Conflict, already) is counted as already donated and not as a
\* failure; every wallet of the roster is called once, in roster order,
\* whatever the earlier answers were, each call lands in one of the three
\* counters (their sum is the roster's size), and the function returns Ok.
ConflictIsAlreadyDonated == []DonateCounted /\ [][DonateStep]_vars

\* C29 witness: the function has returned Ok after a conflict, a failure
\* and a new donation.
ReturnedOkAfterFailures ==
  /\ dres = "ok"
  /\ already_donated_count >= 1 /\ failed_count >= 1 /\ success_count >= 1

\* ----------------------------------------------------- the difficulty rule
MaxHexLen == 8
MaxHashLen == 4

\* The characters a target is written with here: hexadecimal digits and one
\* character that is none.
HexChars == {"0", "7", "F", "G"}

\* The value of a hexadecimal digit.
HexValue == [ch \in {"0", "7", "F"} |-> IF ch = "0" THEN 0 ELSE IF ch = "7" THEN 7 ELSE 15]

HexTexts == UNION {[1..n -> HexChars] : n \in 0..MaxHexLen}

\* hex::decode returns Ok: an even number of characters, each one a digit.
HexDecodes(text) ==
  /\ Len(text) % 2 = 0
  /\ \A i \in DOMAIN text : text[i] \in DOMAIN HexValue

\* hex::decode: one byte for each pair of digits.
HexDecode(text) ==
  [i \in 1..(Len(text) \div 2) |->
     16 * HexValue[text[2 * i - 1]] + HexValue[text[2 * i]]]

\* u8::leading_zeros
LeadingZeros(byte) == Cardinality({k \in 1..8 : byte < 2 ^ (8 - k)})

\* Mutation: the loop does not stop at the first byte that is not zero.
ZeroBitsWithoutBreak(bytes) ==
  8 * Cardinality({i \in DOMAIN bytes : bytes[i] = 0})
    + (IF \E i \in DOMAIN bytes : bytes[i] # 0
         THEN LeadingZeros(bytes[CHOOSE i \in DOMAIN bytes :
                /\ bytes[i] # 0
                /\ \A j \in 1..(i - 1) : bytes[j] = 0])
         ELSE 0)

\* test_difficulty.rs:3-12  the loop over the bytes of the target
RECURSIVE ZeroBitsOf(_)
ZeroBitsOf(bytes) ==
  IF bytes = <<>> THEN 0
  ELSE IF Head(bytes) = 0 THEN 8 + ZeroBitsOf(Tail(bytes))
  ELSE LeadingZeros(Head(bytes))

\* test_difficulty.rs:1-13  difficulty_to_zero_bits: unwrap panics when the
\* text does not decode
DifficultyToZeroBits ==
  /\ fpc = "call"
  /\ IF HexDecodes(difficulty_hex)
       THEN diff' = [diff EXCEPT
                       !.fpc = "returned",
                       !.zero_bits = ZeroBitsOf(HexDecode(difficulty_hex))]
       ELSE diff' = [diff EXCEPT !.fpc = "panicked"]
  /\ UNCHANGED <<programVars, toolsButDiff>>

InitDifficulty ==
  /\ ProgramIdle /\ DonateIdle /\ BackoffIdle /\ EngineIdle
  /\ \E text \in HexTexts :
       diff = [fpc |-> "call", difficulty_hex |-> text, zero_bits |-> 0,
               hash |-> <<>>, required |-> 0, good |-> FALSE]

NextDifficulty == DifficultyToZeroBits

SpecDifficulty == InitDifficulty /\ [][NextDifficulty]_vars

\* The number of bytes 0x00 a sequence of bytes begins with.
LeadingZeroBytes(bytes) ==
  Cardinality({i \in DOMAIN bytes : \A j \in 1..i : bytes[j] = 0})

\* 8 for each leading byte 0x00 and the leading zero bits of the byte after
\* them.
LeadingZeroBits(bytes) ==
  8 * LeadingZeroBytes(bytes)
    + (IF LeadingZeroBytes(bytes) < Len(bytes)
         THEN LeadingZeros(bytes[LeadingZeroBytes(bytes) + 1])
         ELSE 0)

\* C24: difficulty_to_zero_bits is 8 times the number of leading bytes 0x00
\* of the decoded target plus the leading zero bits of the first byte that
\* is not zero, whatever bytes follow it; the targets 00FFFFFF, 000FFFFF,
\* 0000FFFF and 00007FFF give 8, 12, 16 and 17.
ZeroBitsOfLeadingBytes ==
  fpc = "returned" =>
    /\ zero_bits = LeadingZeroBits(HexDecode(difficulty_hex))
    /\ difficulty_hex = <<"0", "0", "F", "F", "F", "F", "F", "F">> => zero_bits = 8
    /\ difficulty_hex = <<"0", "0", "0", "F", "F", "F", "F", "F">> => zero_bits = 12
    /\ difficulty_hex = <<"0", "0", "0", "0", "F", "F", "F", "F">> => zero_bits = 16
    /\ difficulty_hex = <<"0", "0", "0", "0", "7", "F", "F", "F">> => zero_bits = 17

\* C24 witness: a target whose bytes after the first non-zero byte hold a
\* zero byte has been converted.
ConvertedWithLaterZeroByte ==
  /\ fpc = "returned"
  /\ difficulty_hex = <<"0", "0", "7", "F", "0", "0", "F", "F">>
  /\ zero_bits = 9

\* C25: a target that is empty or does not decode is surfaced as an error;
\* it never gives a requirement of 0 zero bits, which every hash meets.
MalformedTargetIsError ==
  (fpc # "call" /\ (difficulty_hex = <<>> \/ ~HexDecodes(difficulty_hex))) =>
     fpc = "panicked"

\* hash_structure_good for every required number of zero bits.
MaxZeroBits == 8 * MaxHashLen + 1

\* The bytes the hashes are made of here: 0x00, 0x01, 0x7F, 0x80, 0xFF.
HashBytes == {0, 1, 127, 128, 255}

Hashes == UNION {[1..n -> HashBytes] : n \in 0..MaxHashLen}

\* The bitwise and of two bytes.
BitAnd(a, b) ==
  LET bit(x, i) == (x \div 2 ^ i) % 2
      RECURSIVE from(_)
      from(i) == IF i = 8 THEN 0 ELSE bit(a, i) * bit(b, i) * 2 ^ i + from(i + 1)
  IN from(0)

\* Mutation: the mask covers the low bits of the byte.
MaskOfLowBits(remaining_bits) == 2 ^ remaining_bits - 1

\* test_difficulty.rs:27  0xFF << (8 - remaining_bits), a u8
Mask(remaining_bits) == (255 * 2 ^ (8 - remaining_bits)) % 256

\* test_difficulty.rs:15-32  hash_structure_good
HashStructureGoodOf(h, bits) ==
  LET full_bytes == bits \div 8
      remaining_bits == bits % 8
  IN IF Len(h) < full_bytes THEN FALSE
     ELSE IF \E i \in 1..full_bytes : h[i] # 0 THEN FALSE
     ELSE IF remaining_bits = 0 THEN TRUE
     ELSE IF Len(h) > full_bytes
            THEN BitAnd(h[full_bytes + 1], Mask(remaining_bits)) = 0
            ELSE FALSE

HashStructureGood ==
  /\ fpc = "call"
  /\ diff' = [diff EXCEPT !.fpc = "returned",
                          !.good = HashStructureGoodOf(hash, required)]
  /\ UNCHANGED <<programVars, toolsButDiff>>

InitHash ==
  /\ ProgramIdle /\ DonateIdle /\ BackoffIdle /\ EngineIdle
  /\ \E h \in Hashes, n \in 0..MaxZeroBits :
       diff = [fpc |-> "call", difficulty_hex |-> <<>>, zero_bits |-> 0,
               hash |-> h, required |-> n, good |-> FALSE]

NextHash == HashStructureGood

SpecHash == InitHash /\ [][NextHash]_vars

\* C23: hash_structure_good(H, n) is true exactly when the number of
\* leading zero bits of H (8 for each leading zero byte plus the leading
\* zeros of the first non-zero byte, 8 * len(H) for a hash of zero bytes) is
\* at least n; [00,00,00,FF] meets 24, [00,00,7F,FF] meets 17 and
\* [00,00,00,7F] meets 25.
GoodIffEnoughLeadingZeroBits ==
  fpc = "returned" =>
    /\ good <=> LeadingZeroBits(hash) >= required
    /\ (hash = <<0, 0, 0, 255>> /\ required = 24) => good
    /\ (hash = <<0, 0, 127, 255>> /\ required = 17) => good
    /\ (hash = <<0, 0, 0, 127>> /\ required = 25) => good

\* C23 witness: a hash met a requirement that ends inside a byte.
MetInsideAByte ==
  /\ fpc = "returned" /\ good
  /\ hash = <<0, 0, 0, 127>> /\ required = 25

\* ---------------------------------------------------------------- Backoff
\* Backoff::sleep: the thread sleeps for the delay, attempts is incremented
BackoffSleep(b) ==
  /\ bk_attempts[b] < MaxSleeps
  /\ backoff' = [backoff EXCEPT
                   !.bk_delay[b] = BackoffDelay(bk_attempts[b]),
                   !.bk_attempts[b] = @ + 1,
                   !.bk_peak[b] = Max(@, BackoffDelay(bk_attempts[b]))]
  /\ UNCHANGED <<programVars, toolsButBackoff>>

\* Backoff::reset: the attempt counter is zero again
BackoffReset(b) ==
  /\ backoff' = [backoff EXCEPT !.bk_attempts[b] = 0, !.bk_delay[b] = 0]
  /\ UNCHANGED <<programVars, toolsButBackoff>>

\* mining.rs:291-322, 395-399  the mode's loops call sleep and reset
BackoffSleeps == \E b \in Backoffs : BackoffSleep(b)

BackoffResets == \E b \in Backoffs : BackoffReset(b)

\* mining.rs:278-279  the instances as Backoff::new leaves them
InitBackoff ==
  /\ ProgramIdle /\ DonateIdle /\ DiffIdle /\ EngineIdle
  /\ backoff = [bk_attempts |-> [b \in Backoffs |-> 0],
                bk_delay |-> [b \in Backoffs |-> 0],
                bk_peak |-> [b \in Backoffs |-> 0]]

NextBackoff == BackoffSleeps \/ BackoffResets

SpecBackoff == InitBackoff /\ [][NextBackoff]_vars

\* The delays of sleeps that follow one another without a reset: 5, 10, 20,
\* 40, 80, 160, and 300 from then on.
DelayTable(n) ==
  IF n >= 7 THEN 300 ELSE <<5, 10, 20, 40, 80, 160>>[n]

\* The delay of the n-th sleep since the last reset is the table's, at most
\* the cap.
DelaysCapped ==
  \A b \in Backoffs :
    /\ bk_delay[b] <= 300
    /\ bk_attempts[b] > 0 => bk_delay[b] = DelayTable(bk_attempts[b])

\* A sleep is not shorter than the sleep before it unless a reset came
\* between, and the sleep after a reset is the base delay.
SleepStep ==
  \A b \in Backoffs :
    BackoffSleep(b) =>
      /\ bk_delay'[b] >= bk_delay[b]
      /\ bk_attempts'[b] = bk_attempts[b] + 1
      /\ bk_attempts[b] = 0 => bk_delay'[b] = 5

\* C26: sleeps of a Backoff with no reset between them have the delays
\* min(base * multiplier^attempts, cap), which never decrease and never
\* exceed the cap (5, 10, 20, 40, 80, 160, 300, 300, ... for
\* Backoff::new(5, 300, 2.0)); after a reset the next delay is the base.
BackoffDelaysGrowToCap == []DelaysCapped /\ [][SleepStep]_vars

\* C26 witness: the first sleep after a reset, the instance having slept
\* for the cap before.
BaseAgainAfterReset ==
  \E b \in Backoffs :
    bk_peak[b] = 300 /\ bk_attempts[b] = 1 /\ bk_delay[b] = 5

\* ---------------------------------------------------------------------
\* One call of the search engine, run_single_mining_cycle
\* (mining.rs:218, 405, 495, 1112)
\* ---------------------------------------------------------------------

\* The (identity, challenge) pair the call searches for.
EngineKey == <<0, 1>>

\* The nonce space of the call.
Nonces == 0..(NumThreads * NoncesPerThread - 1)

\* The share of thread t: its k-th nonce.
NonceOf(t, k) == (t - 1) + k * NumThreads

\* The targets that are followed: no nonce, one or two satisfy them, or
\* (the trivial target) every nonce does.
Targets == {S \in SUBSET Nonces : Cardinality(S) <= 2} \cup {Nonces}

\* Mutation: the flag is looked at only after a first batch of hashes.
CancelObservedLate(t) == stop_signal = "set" /\ tnonce[t] > 0

\* The cancellation flag is supplied and is observed set.
CancelObserved(t) == stop_signal = "set"

\* The share of thread t is used up.
Exhausted(t) == tnonce[t] >= NoncesPerThread

\* A search thread polls: its own flag, the signal of a sibling, the end of
\* its share. Otherwise it hashes until the next poll.
ThreadCheck(t) ==
  /\ epc = "search" /\ tpc[t] = "check"
  /\ IF CancelObserved(t) \/ should_stop \/ Exhausted(t)
       THEN engine' = [engine EXCEPT !.tpc[t] = "done"]
       ELSE engine' = [engine EXCEPT !.tpc[t] = "hash",
                                     !.tleft[t] = HashesPerCheck]
  /\ UNCHANGED <<programVars, toolsButEngine>>

\* A search thread hashes one nonce of its share. The first thread to find
\* a satisfying nonce keeps it and signals its siblings to stop.
ThreadHash(t) ==
  /\ epc = "search" /\ tpc[t] = "hash"
  /\ LET hashed == [engine EXCEPT
                      !.total_hashes = @ + 1,
                      !.lateHashes[t] = IF should_stop THEN @ + 1 ELSE @]
     IN IF NonceOf(t, tnonce[t]) \in satisfying
          THEN engine' = [hashed EXCEPT
                            !.found_nonce = IF @ = NoNonce
                                              THEN NonceOf(t, tnonce[t]) ELSE @,
                            !.should_stop = TRUE,
                            !.tpc[t] = "done"]
          ELSE engine' = [hashed EXCEPT
                            !.tnonce[t] = @ + 1,
                            !.tleft[t] = @ - 1,
                            !.tpc[t] = IF tleft[t] - 1 = 0
                                          \/ tnonce[t] + 1 >= NoncesPerThread
                                         THEN "check" ELSE "hash"]
  /\ UNCHANGED <<programVars, toolsButEngine>>

\* mining.rs:901-903  the caller's side of the flag: the scheduler sets it
\* while the search runs
EngineCancel ==
  /\ epc = "search" /\ stop_signal = "clear"
  /\ engine' = [engine EXCEPT !.stop_signal = "set"]
  /\ UNCHANGED <<programVars, toolsButEngine>>

\* The call joins a search thread that has ended.
EngineJoin(t) ==
  /\ epc = "search" /\ tpc[t] = "done"
  /\ engine' = [engine EXCEPT !.tpc[t] = "joined"]
  /\ UNCHANGED <<programVars, toolsButEngine>>

\* Mutation: the call goes on once one thread is joined.
JoinedOne == \E t \in EngineThreads : tpc[t] = "joined"

\* All threads are joined.
JoinedAll == \A t \in EngineThreads : tpc[t] = "joined"

\* After the joins: a nonce that was found is written to the recovery
\* marker; without one the call returns MiningFailed.
EngineJoined ==
  /\ epc = "search" /\ JoinedAll
  /\ IF found_nonce # NoNonce
       THEN /\ marker' = [marker EXCEPT ![EngineKey] = "solution"]
            /\ found' = found \cup {EngineKey}
            /\ engine' = [engine EXCEPT !.epc = "found"]
       ELSE /\ engine' = [engine EXCEPT !.eresult = "MiningFailed",
                                         !.epc = "returned"]
            /\ UNCHANGED <<marker, found>>
  /\ UNCHANGED <<queue, receipt, altReceipt, marker0, queue0, prevKey,
                 prevWarn>>
  /\ UNCHANGED <<recVars, modeVars, drainVars, poolCfgVars, active, schedVars,
                 workerVars, monVars, poolHistVars, statsVars, liveVars>>
  /\ UNCHANGED toolsButEngine

\* The solution is written to the pending queue, the marker may be deleted,
\* and FoundAndQueued is returned.
EngineQueued ==
  /\ epc = "found"
  /\ queue' = SavePendingSolution(queue, EngineKey)
  /\ marker' \in {marker, [marker EXCEPT ![EngineKey] = "absent"]}
  /\ engine' = [engine EXCEPT !.eresult = "FoundAndQueued",
                              !.epc = "returned"]
  /\ UNCHANGED <<receipt, altReceipt, histVars>>
  /\ UNCHANGED <<recVars, modeVars, drainVars, poolCfgVars, active, schedVars,
                 workerVars, monVars, poolHistVars, statsVars, liveVars>>
  /\ UNCHANGED toolsButEngine

\* mining.rs:1112-1131  mine_single_wallet_quiet, which passed
\* Some(stop_signal), returns the result of the call; the donation of a
\* FoundAndQueued result writes no file
QuietReturn ==
  /\ epc = "returned" /\ stop_signal # "none" /\ quiet_result = "none"
  /\ engine' = [engine EXCEPT !.quiet_result = eresult]
  /\ UNCHANGED <<programVars, toolsButEngine>>

\* The call has begun: the threads are spawned, each about to poll. The
\* flag is None (mining.rs:218, 405, 495), or Some (mining.rs:1118), clear
\* or set already.
InitEngine ==
  /\ ProgramIdle /\ DonateIdle /\ DiffIdle /\ BackoffIdle
  /\ \E flag \in {"none", "clear", "set"}, target \in Targets :
       engine = [epc |-> "search",
                 stop_signal |-> flag,
                 preset |-> (flag = "set"),
                 satisfying |-> target,
                 tpc |-> [t \in EngineThreads |-> "check"],
                 tnonce |-> [t \in EngineThreads |-> 0],
                 tleft |-> [t \in EngineThreads |-> 0],
                 should_stop |-> FALSE,
                 found_nonce |-> NoNonce,
                 lateHashes |-> [t \in EngineThreads |-> 0],
                 total_hashes |-> 0,
                 eresult |-> "none",
                 quiet_result |-> "none"]

NextEngine ==
  \/ \E t \in EngineThreads : ThreadCheck(t)
  \/ \E t \in EngineThreads : ThreadHash(t)
  \/ EngineCancel
  \/ \E t \in EngineThreads : EngineJoin(t)
  \/ EngineJoined
  \/ EngineQueued
  \/ QuietReturn

SpecEngine == InitEngine /\ [][NextEngine]_vars

\* The target is not met by every nonce.
NonTrivialTarget == satisfying # Nonces

\* Nothing was found and no file was written.
NothingFoundOrQueued ==
  /\ found_nonce = NoNonce /\ found = {}
  /\ marker = marker0 /\ queue = queue0

\* C21: a search that starts with its cancellation flag set returns
\* MiningFailed without finding or queueing a nonce (the target being
\* non-trivial), and the pool worker that made the call reports MiningFailed
\* and has written no recovery marker and no queue entry.
PresetCancelFindsNothing ==
  preset /\ NonTrivialTarget =>
    /\ NothingFoundOrQueued
    /\ epc = "returned" => eresult = "MiningFailed"
    /\ quiet_result \in {"none", "MiningFailed"}

\* A pool worker has reported the result of a search whose flag was set
\* from the start, for a target that some nonce meets, and no hash was made.
ReportedFailedOnPresetFlag ==
  /\ preset /\ NonTrivialTarget /\ satisfying # {}
  /\ quiet_result = "MiningFailed" /\ total_hashes = 0

\* The call is over for its threads.
CallReturns == epc \in {"found", "returned"}

\* C22: inside one engine call the first thread that finds a satisfying
\* nonce signals all its siblings to stop, which they do at their next poll,
\* and every search thread has been joined when the call returns, be it on
\* success, on exhaustion or on cancellation.
AllJoinedOnReturn ==
  /\ found_nonce # NoNonce => should_stop
  /\ \A t \in EngineThreads : lateHashes[t] <= HashesPerCheck
  /\ CallReturns =>
       \A t \in EngineThreads : tpc[t] = "joined"

\* A call returned FoundAndQueued after a sibling of the finder, signalled
\* in the middle of its share, stopped without using it up.
SiblingStoppedOnSignal ==
  /\ epc = "returned" /\ eresult = "FoundAndQueued"
  /\ \E t \in EngineThreads :
       /\ NonceOf(t, tnonce[t]) # found_nonce
       /\ lateHashes[t] > 0 /\ ~Exhausted(t)
       /\ tpc[t] = "joined"

\* ---------------------------------------------------------------------
\* The live statuses of a pool round
\* ---------------------------------------------------------------------

\* mining.rs:596-611  a run whose statuses are followed: the statistics are
\* built at the start of each round, none exist before the first
InitLive == InitScheduler /\ status = <<>>

NextLive ==
  \/ MainPoll
  \/ MainSetup
  \/ MainBatch
  \/ MainLoopCheck
  \/ MainRecv
  \/ MainJoin
  \/ MainUpdate
  \/ MainRotate
  \/ MainStopMonitor
  \/ MainJoinMonitor
  \/ MainCancelSignal
  \/ MainCancelWait
  \/ MainCancelWaitJoin
  \/ MainCancelJoin
  \/ MainCancelCleanup
  \/ MainFinal
  \/ MainFinalJoin
  \/ MainNextWait
  \/ \E p \in Positions : WorkerFinish(p)
  \/ \E p \in Positions : OrphanExit(p)
  \/ MonCheck
  \/ MonPoll
  \/ Rotation

SpecLive == InitLive /\ [][NextLive]_vars

FinalStatuses == {"Solved", "Skipped", "Failed"}

\* One identity's status over a step: unchanged, or one move forward.
StatusMoves(old, new) ==
  \/ new = old
  \/ old = "Waiting" /\ new = "Mining"
  \/ old = "Mining" /\ new \in FinalStatuses

\* A step inside a round: the statistics are not being rebuilt.
WithinRound == mpc # "setup" /\ DOMAIN status' = DOMAIN status

\* The status an identity takes as its result is handled.
ResultShown ==
  mpc = "update" /\ mpc' # "update" =>
    \E p \in DOMAIN status :
      /\ roster[p] = msg.name
      /\ status[p] = "Mining"
      /\ status'[p] = (CASE msg.result = "FoundAndQueued" -> "Solved"
                         [] msg.result = "AlreadySolved" -> "Skipped"
                         [] msg.result = "MiningFailed" -> "Failed")

StatusStep ==
  WithinRound =>
    /\ \A p \in DOMAIN status : StatusMoves(status[p], status'[p])
    /\ ResultShown

\* mining.rs:973-990  the summary of a round that completed without rotation
RoundSummarised == mpc = "final"

AllFinal ==
  /\ \A p \in DOMAIN status : status[p] \in FinalStatuses
  /\ Cardinality({p \in DOMAIN status : status[p] = "Solved"})
       + Cardinality({p \in DOMAIN status : status[p] = "Skipped"})
       + Cardinality({p \in DOMAIN status : status[p] = "Failed"})
     = NumWallets

\* C30: in a pool round each identity's status only moves Waiting -> Mining
\* -> {Solved, Skipped, Failed}, a result being shown as Solved for
\* FoundAndQueued, Skipped for AlreadySolved and Failed for MiningFailed, and
\* a final status is never left within the round; when a round completes
\* without rotation no identity is Waiting or Mining, and Solved + Skipped +
\* Failed is the size of the roster.
StatusOnlyMovesForward ==
  /\ [][StatusStep]_vars
  /\ [](RoundSummarised => AllFinal)

\* The same on a roster whose names are all different.
StatusOnlyMovesForwardDistinct ==
  /\ [][DistinctNames(roster) => StatusStep]_vars
  /\ [](DistinctNames(roster) /\ RoundSummarised => AllFinal)

\* ------------------------------------------------ Waits of the mnemonic loop
\* mining.rs:278-326, 384-399  the mnemonic mode with its two Backoff
\* instances followed
InitPolling ==
  /\ marker = NoMarkers /\ queue = {} /\ receipt = {} /\ altReceipt = {}
  /\ mode = "mnemonic"
  /\ pc = "poll"
  /\ ret = "idle" /\ rkey = <<0, 1>>
  /\ rsol = NoKey /\ rres = "none" /\ rlog = "none"
  /\ marker0 = marker /\ queue0 = queue /\ prevKey = NoKey /\ prevWarn = NoKey /\ found = {}
  /\ donate_to_option = FALSE
  /\ mnemonic_starting_index = 0
  /\ cid = 0 /\ address = 0 /\ wallet_deriv_index = 0
  /\ first_run = TRUE /\ last_seen_challenge_id = 0 /\ result = "none"
  /\ current_challenge_id = 0
  /\ DrainIdle /\ DonateIdle /\ DiffIdle /\ EngineIdle
  /\ backoff = [bk_attempts |-> [b \in Backoffs |-> 0],
                bk_delay |-> [b \in Backoffs |-> 0],
                bk_peak |-> [b \in Backoffs |-> 0],
                failed_polls |-> 0]
  /\ pinned = FALSE /\ active = 1 /\ SchedulerIdle /\ StatsIdle

NextMnemonic ==
  \/ Rotation
  \/ MnemonicPoll
  \/ MnemonicSkipRecover
  \/ MnemonicSkipPending
  \/ MnemonicSkipReceipt
  \/ MnemonicSkipAlternate
  \/ MnemonicRegister
  \/ EngineSearch
  \/ EngineReturn
  \/ MnemonicResult
  \/ RecExists
  \/ RecRead
  \/ RecParse
  \/ RecSave
  \/ RecRemove

SpecPolling == InitPolling /\ [][NextMnemonic]_vars

\* C31: in the mnemonic mode the waits after polls that failed one after the
\* other are 5, 10, 20, ... seconds up to 300: after the n-th failed poll in
\* a row the loop has slept DelayTable(n) seconds.
PollWaitsGrow ==
  failed_polls > 0 => bk_delay["challenge"] = DelayTable(failed_polls)

\* The wait after every failed poll is the base delay, and the attempt
\* counter of backoff_challenge is never above 1.
PollWaitsStayAtBase ==
  /\ failed_polls > 0 => bk_delay["challenge"] = 5
  /\ bk_attempts["challenge"] <= 1

\* A second failed poll in a row has been waited for.
SecondFailedPollWaited ==
  failed_polls = 2 /\ pc = "poll" /\ bk_delay["challenge"] = 5

\* The waits after failed registrations do grow: backoff_reg is reset only
\* by a registration that succeeded.
RegWaitsGrow ==
  bk_attempts["reg"] > 0 => bk_delay["reg"] = DelayTable(bk_attempts["reg"])

\* ------------------------------------------------ Index of the mnemonic loop
\* mining.rs:256-445  one run of the mnemonic mode from any starting index,
\* beside a coordinator that rotates the challenge, with and without a
\* pinned challenge
InitMnemonic ==
  /\ marker = NoMarkers /\ queue = {} /\ receipt = {} /\ altReceipt = {}
  /\ mode = "mnemonic"
  /\ pc = "poll"
  /\ ret = "idle" /\ rkey = <<0, 1>>
  /\ rsol = NoKey /\ rres = "none" /\ rlog = "none"
  /\ marker0 = marker /\ queue0 = queue /\ prevKey = NoKey /\ prevWarn = NoKey /\ found = {}
  /\ donate_to_option = FALSE
  /\ mnemonic_starting_index \in Identities
  /\ cid = 0 /\ address = 0 /\ wallet_deriv_index = 0
  /\ first_run = TRUE /\ last_seen_challenge_id = 0 /\ result = "none"
  /\ current_challenge_id = 0
  /\ DrainIdle /\ ToolsIdle
  /\ pinned \in BOOLEAN /\ active = 1 /\ SchedulerIdle /\ StatsIdle

SpecMnemonic == InitMnemonic /\ [][NextMnemonic]_vars

\* mining.rs:424-437  the match on the result of one mining cycle
Advancing == FoundBranch \/ result = "AlreadySolved"

\* After FoundAndQueued and AlreadySolved the index is the next one, after
\* MiningFailed it is the same.
ResultStep ==
  MnemonicResult =>
    wallet_deriv_index' =
      IF Advancing THEN wallet_deriv_index + 1 ELSE wallet_deriv_index

\* While the challenge mined for stays the same the index does not go down.
SameChallengeStep ==
  (cid' = cid /\ cid # 0) => wallet_deriv_index' >= wallet_deriv_index

\* C32: the index advances by exactly one after FoundAndQueued and after
\* AlreadySolved, is unchanged after MiningFailed, and within one challenge
\* never decreases.
IndexAdvancesByOne == [][ResultStep /\ SameChallengeStep]_vars

\* What the loop does: the index after a result is wrapping_add(1) of the
\* index for the advancing results and the same index after MiningFailed.
ResultStepWraps ==
  MnemonicResult =>
    wallet_deriv_index' =
      IF Advancing THEN WrappingAdd1(wallet_deriv_index) ELSE wallet_deriv_index
IndexAdvancesWrapping == [][ResultStepWraps]_vars

\* A solution was queued for the last index of the index space, which was
\* the starting index, and the loop is back at its poll with index 0.
WrappedBelowStart ==
  /\ pc = "poll" /\ wallet_deriv_index = 0
  /\ mnemonic_starting_index = NumIdentities - 1
  /\ <<NumIdentities - 1, cid>> \in queue

\* The index handed to the engine is at least the starting index.
MinedAtLeastStart ==
  (pc = "search" /\ mode = "mnemonic") => IndexGuard

\* mining.rs:301  if first_run || (cli_challenge.is_none() &&
\*                                 params.challenge_id != old_challenge_id)
Recomputes == first_run \/ (~pinned /\ PolledId # last_seen_challenge_id)

\* A poll changes the index only when it returned a challenge and the test
\* of line 301 held, the new index is then at least the starting index, and
\* a poll with a pinned challenge changes it on the first returned challenge
\* only.
RecomputeStep ==
  (pc = "poll" /\ wallet_deriv_index' # wallet_deriv_index) =>
    /\ pc' = "skip" /\ cid' = PolledId
    /\ Recomputes
    /\ pinned => first_run
    /\ wallet_deriv_index' >= mnemonic_starting_index

\* C33: the index that is mined is never below the starting index; the
\* index is recomputed, as a value not below the starting index, only on the
\* first successful poll or, without a pinned challenge, when the polled id
\* differs from the last seen id, and with a pinned challenge only once.
StartingIndexRespected == []MinedAtLeastStart /\ [][RecomputeStep]_vars

\* The part on the recomputation alone.
RecomputedOnNewChallengeOnly == [][RecomputeStep]_vars

\* An index below the starting index is handed to the engine.
MinedBelowStart ==
  pc = "search" /\ mode = "mnemonic" /\ ~IndexGuard

\* ------------------------------------------------ Guard checks of one pass
\* mining.rs:342-377, 1071-1085  the mnemonic mode and a pool worker beside
\* the submitter, over restarts, the passes followed
InitGuards ==
  /\ marker = NoMarkers /\ queue = {} /\ receipt = {} /\ altReceipt = {}
  /\ mode \in {"mnemonic", "pool"}
  /\ pc = "poll"
  /\ ret = "idle" /\ rkey = <<0, 1>>
  /\ rsol = NoKey /\ rres = "none" /\ rlog = "none"
  /\ marker0 = marker /\ queue0 = queue /\ prevKey = NoPass /\ prevWarn = NoKey /\ found = {}
  /\ donate_to_option = FALSE
  /\ mnemonic_starting_index = 0
  /\ cid = 0 /\ address = 0 /\ wallet_deriv_index = 0
  /\ first_run = TRUE /\ last_seen_challenge_id = 0 /\ result = "none"
  /\ current_challenge_id = 0
  /\ DrainIdle /\ ToolsIdle
  /\ PoolIdle

NextGuards ==
  \/ MnemonicPoll
  \/ MnemonicSkipRecover
  \/ MnemonicSkipPending
  \/ MnemonicSkipReceipt
  \/ MnemonicSkipAlternate
  \/ MnemonicRegister
  \/ PoolWorkerCall
  \/ PoolWorkerPending
  \/ PoolWorkerReceipt
  \/ PoolWorkerRegister
  \/ PoolWorkerNext
  \/ EngineSearch
  \/ EngineReturn
  \/ MnemonicResult
  \/ PoolWorkerResult
  \/ RecExists
  \/ RecRead
  \/ RecParse
  \/ RecSave
  \/ RecRemove
  \/ Drain
  \/ Restart

SpecGuards == InitGuards /\ [][NextGuards]_vars

\* The recovery call of the pass under way enqueued the marker of the pair
\* the pass is about.
EnqueuedInPass == prevKey = MiningKey

\* The positions a pass moves to from each of its checks: the recovery call,
\* then the pending queue, then the receipt at the expected path, then (in
\* the mnemonic mode) the receipt at the alternate path.
ChecksInOrder ==
  /\ pc = "skip_pending" => pc' \in {"skip_pending", "skip", "skip_receipt", "stopped", "poll"}
  /\ pc = "skip_receipt" => pc' \in {"skip_receipt", "skip", "skip_alternate", "poll"}
  /\ pc = "skip_alternate" => pc' \in {"skip_alternate", "skip", "register", "poll"}
  /\ pc = "w_pending" => pc' \in {"w_pending", "returned", "w_receipt", "poll"}
  /\ pc = "w_receipt" => pc' \in {"w_receipt", "returned", "w_register", "poll"}

\* A pair whose marker the pass's recovery call enqueued is not handed to
\* the engine in that pass, and the worker's pass for it ends with
\* AlreadySolved.
NotMinedInPass ==
  /\ (pc = "search" /\ mode \in {"mnemonic", "pool"}) => ~EnqueuedInPass
  /\ (pc = "returned" /\ mode = "pool" /\ EnqueuedInPass) =>
        result = "AlreadySolved"

\* C34: the checks of a pass run in the order recovery marker, pending
\* queue, receipt at the expected path, receipt at the alternate path, and
\* an identity whose marker the recovery call enqueued is not mined in the
\* same pass: the mnemonic mode skips the index, the pool worker returns
\* AlreadySolved.
RecoveredIdentityNotMined == [][ChecksInOrder]_vars /\ []NotMinedInPass

\* The same for the mnemonic mode alone.
RecoveredIndexSkipped ==
  [](mode = "mnemonic" => NotMinedInPass)

\* A pool worker is handed to the engine the pair its recovery call has just
\* enqueued: the submitter confirmed the entry in between.
WorkerMinesRecovered ==
  /\ pc = "search" /\ mode = "pool" /\ EnqueuedInPass
  /\ MiningKey \in altReceipt

\* ------------------------------------------------ Recovery that fails
\* mining.rs:132-144, 208-211, 343-347, 1071-1074  one run of the persistent
\* mode, the mnemonic mode or a pool worker on a data directory in which one
\* pair has a marker, possibly corrupt, a queue entry, both or neither
InitFailures ==
  /\ \E k \in Keys, s \in MarkerStates :
       /\ marker = [NoMarkers EXCEPT ![k] = s]
       /\ queue \in {{}, {k}}
  /\ receipt = {} /\ altReceipt = {}
  /\ mode \in {"persistent", "mnemonic", "pool"}
  /\ pc = (IF mode = "persistent" THEN "p_register" ELSE "poll")
  /\ ret = "idle" /\ rkey = <<0, 1>>
  /\ rsol = NoKey /\ rres = "none" /\ rlog = "none"
  /\ marker0 = marker /\ queue0 = queue /\ prevKey = NoKey /\ prevWarn = NoKey /\ found = {}
  /\ donate_to_option = FALSE
  /\ mnemonic_starting_index = 0
  /\ cid = 0 /\ address = 0 /\ wallet_deriv_index = 0
  /\ first_run = TRUE /\ last_seen_challenge_id = 0 /\ result = "none"
  /\ current_challenge_id = 0
  /\ DrainIdle /\ ToolsIdle
  /\ PoolIdle

NextFailures ==
  \/ PersistentRegister
  \/ ModePoll
  \/ PersistentRecover
  \/ PersistentRecovered
  \/ MnemonicPoll
  \/ MnemonicSkipRecover
  \/ MnemonicSkipPending
  \/ MnemonicSkipReceipt
  \/ MnemonicSkipAlternate
  \/ MnemonicRegister
  \/ PoolWorkerCall
  \/ PoolWorkerPending
  \/ PoolWorkerReceipt
  \/ PoolWorkerRegister
  \/ PoolWorkerNext
  \/ EngineSearch
  \/ EngineReturn
  \/ PersistentResult
  \/ MnemonicResult
  \/ PoolWorkerResult
  \/ RecExists
  \/ RecRead
  \/ RecParse
  \/ RecSave
  \/ RecRemove

SpecFailures == InitFailures /\ [][NextFailures]_vars

\* The recovery call is at a step before its queue write has succeeded.
BeforeQueueWrite == pc \in {"rec_exists", "rec_read", "rec_parse", "rec_save"}

\* A call that returns an error does so from the read, the parse or the
\* queue write, with the marker in place, and neither that step nor any step
\* of the call before it has changed a marker or the queue.
FailingCallStep ==
  /\ (BeforeQueueWrite /\ pc' # "rec_remove") =>
        marker' = marker /\ queue' = queue
  /\ (rres' = "err" /\ rres # "err") =>
        /\ pc \in {"rec_read", "rec_parse", "rec_save"} /\ pc' = ret
        /\ HasMarker(rkey) /\ marker' = marker /\ queue' = queue

\* The persistent mode and the mnemonic mode end on the call's error, a
\* pool worker goes on with the queue check and then the receipt check.
CallerStep ==
  /\ (pc \in {"p_recovered", "skip_pending"} /\ rres = "err") =>
        pc' \in {pc, "stopped"}
  /\ pc = "stopped" => pc' = "stopped"
  /\ (pc = "w_pending" /\ rres = "err" /\ pc' # pc) =>
        IF MiningKey \in queue
          THEN pc' = "returned" /\ result' = "AlreadySolved"
          ELSE pc' = "w_receipt"

\* C35: a recovery that cannot read, parse or enqueue the marker returns an
\* error, leaves the marker in place and the queue unchanged; the
\* persistent mode and the mnemonic mode stop on that error without mining,
\* a pool worker ignores it and continues with its remaining guard checks.
FailedRecoveryStopsTheMode == [][FailingCallStep /\ CallerStep]_vars

\* C35 witness: the mnemonic mode has stopped on a marker that does not
\* parse, the marker still there.
StoppedOnCorruptMarker ==
  /\ pc = "stopped" /\ mode = "mnemonic"
  /\ marker[MiningKey] = "corrupt" /\ marker = marker0 /\ queue = queue0

\* A pool worker is at its receipt check after a recovery that failed.
WorkerWentOnAfterFailure ==
  /\ pc = "w_receipt" /\ mode = "pool"
  /\ marker[MiningKey] = "corrupt"

\* ------------------------------------------------ The rotation monitor
\* mining.rs:562-1049  the rounds of the pool on a roster of distinct names,
\* the coordinator rotating; no fairness is assumed
SpecRounds == InitPoolDistinct /\ [][NextPoolJoined]_vars

\* The monitor thread returns true (mining.rs:716).
Signals == monret # "true" /\ monret' = "true"

\* The monitor raises its signal only in the step of a poll that returned a
\* challenge whose id is not the round's, clearing monitor_running with it;
\* a poll that returned an error or no challenge changes neither the signal
\* nor monitor_running.
MonitorStep ==
  /\ Signals =>
       /\ MonPollAnswer("challenge") /\ PolledId # round_cid
       /\ ~monitor_running'
  /\ \A ans \in PollAnswers \ {"challenge"} :
       MonPollAnswer(ans) =>
         /\ UNCHANGED <<monitor_running, monret>>
         /\ monpc' = "check"

\* A monitor that has signalled has returned: it is at no poll.
NoPollAfterSignal == monret = "true" => monpc = "done"

\* C36: the rotation monitor signals only after a poll that succeeded and
\* returned a challenge whose id differs from the round's id; a poll error
\* or a "no active challenge" answer never cancels the round; after
\* signalling the monitor performs no further poll.
SignalOnlyOnNewChallenge == [][MonitorStep]_vars /\ []NoPollAfterSignal

\* C36 witness: the monitor has signalled a rotation while the scheduler
\* waits for results of the round.
SignalledDuringRound ==
  /\ monret = "true" /\ monpc = "done" /\ ~monitor_running
  /\ mpc = "recv" /\ round_cid # PolledId

\* ------------------------------------------------ Scheduler bookkeeping
\* mining.rs:728-729  the names under which a handle, a stop signal is stored
TrackedHandles == {n \in Names : thread_handles[n] # 0}
TrackedFlags == {n \in Names : stop_signals[n] # 0}

\* C37: for every roster the loader accepts, whenever the completion loop
\* waits for a result, active_miners = wallet_index - total_completed =
\* the number of tracked join handles = the number of tracked cancellation
\* flags, and each worker whose result is outstanding has exactly one
\* tracked handle and one tracked flag.
BookkeepingAgrees ==
  mpc = "recv" =>
    /\ active_miners = wallet_index - total_completed
    /\ active_miners = Cardinality(TrackedHandles)
    /\ active_miners = Cardinality(TrackedFlags)
    /\ \A p \in ActiveWorkers :
         thread_handles[roster[p]] = p /\ stop_signals[roster[p]] = p

\* The same on rosters whose names are all different.
BookkeepingAgreesDistinct == DistinctNames(roster) => BookkeepingAgrees

\* The counters alone, on every roster.
CountersAgree ==
  mpc = "recv" => active_miners = wallet_index - total_completed

\* Two workers of one name run, and the scheduler waits for a result with
\* one handle and one flag for the two.
TwoWorkersOneHandle ==
  /\ mpc = "recv" /\ active_miners = 2
  /\ Cardinality(TrackedHandles) = 1 /\ Cardinality(TrackedFlags) = 1
  /\ Cardinality(ActiveWorkers) = 2

\* ------------------------------------------------ Threads of a round
\* mining.rs:562-1049  the rounds of the pool on a roster of one or two
\* wallets, one at a time, with the display thread and the rotation monitor
\* of each round followed beside the scheduler and the workers
InitThreads ==
  /\ marker = NoMarkers /\ queue = {} /\ receipt = {} /\ altReceipt = {}
  /\ pc = "idle" /\ ret = "idle" /\ rkey = <<0, 1>>
  /\ rsol = NoKey /\ rres = "none" /\ rlog = "none"
  /\ marker0 = marker /\ queue0 = queue /\ prevKey = NoKey /\ prevWarn = NoKey /\ found = {}
  /\ ModeIdle /\ DrainIdle /\ ToolsIdle
  /\ roster \in {<<1>>, <<1, 2>>}
  /\ wallets_file = [kind |-> "json", wallets |-> roster]
  /\ concurrent = 1
  /\ pinned \in BOOLEAN
  /\ active = 1
  /\ mpc = "poll" /\ round_cid = 0 /\ last_challenge_id = 0
  /\ wallet_index = 0 /\ active_miners = 0 /\ total_completed = 0
  /\ new_challenge_detected = FALSE /\ remaining = 0 /\ attempts = 0
  /\ msg = NoMsg /\ thread_handles = NoHandles /\ stop_signals = NoHandles
  /\ wstate = [p \in Positions |-> "none"]
  /\ stopFlag = [p \in Positions |-> FALSE]
  /\ chan = <<>> /\ orphans = {}
  /\ monitor_running = FALSE /\ monpc = "none" /\ monret = "none"
  /\ launchLog = <<>> /\ lateLaunches = 0 /\ blindLaunches = 0
  /\ lock = "free" /\ net = {}
  /\ spc = "off" /\ dpc = "done"
  /\ display_running = FALSE /\ loop_count = 0
  /\ status = NotFollowed

NextThreads ==
  \/ MainPoll
  \/ MainSetup
  \/ MainBatch
  \/ MainLoopCheck
  \/ MainRecv
  \/ MainJoin
  \/ MainUpdate
  \/ MainRotate
  \/ MainStopMonitor
  \/ MainJoinMonitor
  \/ MainCancelSignal
  \/ MainCancelWait
  \/ MainCancelWaitJoin
  \/ MainCancelJoin
  \/ MainCancelCleanup
  \/ MainFinal
  \/ MainFinalJoin
  \/ MainNextWait
  \/ \E p \in Positions : WorkerFinish(p)
  \/ MonCheck
  \/ MonPoll
  \/ Rotation
  \/ DisplayCheck
  \/ DisplayRender
  \/ DisplayAddress
  \/ DisplayFetch
  \/ DisplayFetched
  \/ DisplayStore
  \/ DisplaySleep

SpecThreads == InitThreads /\ [][NextThreads]_vars

\* The display thread, the monitor thread of a round has ended or was never
\* started.
DisplayEnded == dpc = "done"
MonitorEnded == monpc \in {"none", "done"}

\* mining.rs:644-721  a round spawns its display thread and its monitor
RoundStarts == mpc = "setup" /\ mpc' = "batch"

\* The round is over, on the path of a rotation or on that of a completed
\* roster: its threads have ended.
ThreadsEndedAfterRound ==
  (mpc \in {"poll", "next_wait", "exit", "final_join"}) =>
     DisplayEnded /\ MonitorEnded

\* A round starts only with the display thread and the monitor of the round
\* before ended, and a monitor acts only while the round whose id it was
\* given is under way.
RoundStartStep ==
  /\ RoundStarts => DisplayEnded /\ MonitorEnded
  /\ Signals => mpc \notin {"poll", "setup", "next_wait", "exit"}

\* C38: when a new round starts, the display thread and the rotation
\* monitor of the round before have terminated and been joined, on the path
\* of a rotation and on that of a completed roster, so at most one display
\* loop and one monitor exist at any time and a monitor of one round never
\* cancels the next.
ThreadsJoinedBeforeNextRound ==
  []ThreadsEndedAfterRound /\ [][RoundStartStep]_vars

\* C38 witness: a second round starts after a rotation, the first round's
\* monitor having signalled and its display thread having run.
SecondRoundAfterRotation ==
  /\ mpc = "setup" /\ round_cid = 2 /\ new_challenge_detected
  /\ monret = "true" /\ monpc = "done" /\ dpc = "done"

\* A second round starts after the first was completed.
SecondRoundAfterCompletion ==
  /\ mpc = "setup" /\ round_cid = 2
  /\ monret = "false" /\ monpc = "done" /\ dpc = "done"

\* ------------------------------------------------ The fallback's data
\* The three modes that poll for themselves.
PollingMode == mode \in {"persistent", "mnemonic", "ephemeral"}

\* While a challenge id is known the data of a challenge is stored, and no
\* mode has ended with the error of the fallback that finds no data.
DataStoredWithId ==
  PollingMode =>
    /\ current_challenge_id # 0 => HasLastData
    /\ pc # "fatal"

\* A poll that fails leaves the mode at its poll or, on the fallback, lets
\* it go on with the stored challenge.
FailedPollStep ==
  \A ans \in {"network_error", "error"} :
    (ModePollAnswer(ans) \/ MnemonicPollAnswer(ans)) =>
      /\ pc' \in {"poll", "polled", "skip"}
      /\ ContinuesWithLast(ans) => pc' # "poll" /\ cid' = cid /\ cid # 0

=============================================================================
